---- MODULE Spec2Model ----
(***************************************************************************)
(* Similarity-search and indexing engine of image_search:                  *)
(*   - SearchWorker        (workers/search_worker.py)   linear scan        *)
(*   - IndexWorker / FeatureIndexer (workers/index_worker.py,              *)
(*     batch_processing/feature_indexer.py)             indexing run       *)
(*   - BatchSearchProcessor / MultiIndexSearch                             *)
(*     (batch_processing/batch_search.py)               indexed search     *)
(* Similarities are integers in tenths (0.1 is 1); a worker thread and the *)
(* GUI thread interleave at the granularity of the mutex sections.         *)
(***************************************************************************)
EXTENDS Integers, Sequences, FiniteSets, TLC

\* ---------------------------------------------------------------- bounds
MaxFiles == 2        \* image files in the scanned / indexed folder
MaxScore == 2        \* similarities range over 0..MaxScore (tenths)
MaxStops == 2        \* stop() calls issued by the GUI thread during one run

Scores == 0..MaxScore
Thresholds == 0..MaxScore
Limits == {0, 1, 2}

\* The outcome of extract_features followed by compare_features on one file:
\* "ok" with similarity sim, "absent" (no features), "raise" (an exception).
Outcomes ==
    [kind : {"ok"}, sim : Scores]
        \cup {[kind |-> "absent", sim |-> 0], [kind |-> "raise", sim |-> 0]}

VARIABLES
    \* inputs shared by the runs
    folder,               \* folder[p]: outcome of processing image file p
    caseFold,             \* the file system matches glob patterns case-insensitively
    similarity_threshold,
    max_results,
    old_index,            \* content stored at output_path when the indexing run starts
    \* SearchWorker
    sw_pc,                \* position of SearchWorker.run ("off": no such run)
    sw_running,           \* SearchWorker.running
    sw_cancelled,         \* SearchWorker.cancelled
    sw_image_files,       \* image_files of run
    sw_i,                 \* files already handled by the loop of run
    sw_results,           \* results of run
    sw_signals,           \* signals emitted by the SearchWorker, in order
    sw_stops,             \* stop() calls made so far
    sw_late,              \* extractions begun after a stop() call returned
    sw_query,             \* what extract_features returned for the query image
    \* IndexWorker and its FeatureIndexer
    dispatch,             \* how the indexer's terminal signals reach the worker's slots
    iw_pc,                \* position of IndexWorker.run / FeatureIndexer.run
    iw_cancelled,         \* IndexWorker.cancelled
    iw_indexer,           \* IndexWorker.indexer has been assigned
    iw_mutex,             \* holder of IndexWorker.mutex
    ix_mutex,             \* holder of FeatureIndexer.mutex
    ix_running,           \* FeatureIndexer.running
    ix_cancelled,         \* FeatureIndexer.cancelled
    ix_image_files,       \* image_files of FeatureIndexer.run
    ix_i,                 \* files already handled by the loop
    features_dict,        \* paths that are keys of features_dict, in insertion order
    iw_slot,              \* terminal signal of the indexer being delivered
    gui_pc,               \* position of the GUI thread inside IndexWorker.stop
    gui_queue,            \* slot calls queued for the GUI thread's event loop
    iw_signals,           \* signals emitted by the IndexWorker, in order
    index_file,           \* content stored at output_path
    ix_wrote,             \* this run opened output_path for writing
    iw_stops,             \* stop() calls made so far
    iw_returned,          \* stop() calls that have returned
    iw_late,              \* extractions begun after a stop() call returned
    \* BatchSearchProcessor, IndexedSearchWorker, MultiIndexSearch
    exists,               \* paths p with os.path.exists(p)
    disk,                 \* disk[k]: what open / pickle.load find at index path k
    indexes,              \* BatchSearchProcessor.indexes (the cache of loaded indexes)
    isw_pc,               \* position of IndexedSearchWorker.run
    isw_signals,          \* signals emitted by the IndexedSearchWorker, in order
    mi_pc,                \* position of search_in_multiple_indexes
    mi_finished,          \* index paths whose thread has ended, in order of ending
    results_per_index,    \* results_per_index, in insertion order
    unique_results,       \* unique_results, in insertion order
    combined_results,     \* the list search_in_multiple_indexes returns
    \* an index file shared by an indexing run and the searches of one process
    st_pc,                \* "on" while such a process is running ("off": none)
    new_record,           \* the record the indexing run dumps
    fi_writing,           \* the run is between open(output_path, 'wb') and the end of pickle.dump
    st_written,           \* the run has written the index file
    st_prev,              \* what the index file held when the run opened it
    st_loaded,            \* a load_index of this process has succeeded
    st_reread,            \* the index file was read again after a successful load
    st_last,              \* the last search: its processor, what it read and evaluated
    \* the control panel, the indexing dialog and the index files of one folder
    dlg_pc,               \* "closed", "open" (dialog shown), "indexing" ("off": no such session)
    model_combo,          \* ControlPanel.model_combo.currentIndex()
    extractor_combo,      \* IndexDialog.extractor_combo.currentIndex()
    output_path,          \* IndexDialog.output_path, as the slug in its file name
    existing_indexes,     \* IndexDialog.existing_indexes, as the slugs of their files
    selected_extractor,   \* the extractor start_indexing hands to the IndexWorker
    index_dir,            \* index_dir[s]: extractor_name stored in image_index_<s>.pkl
    xs_last,              \* the last start_search of the main window
    \* one call of an extractor's compare_features
    cf_call               \* the extractor, the two arguments, the position and the result of the call

inputVars == <<folder, caseFold, similarity_threshold, max_results, old_index>>
scanVars == <<sw_pc, sw_running, sw_cancelled, sw_image_files, sw_i, sw_results,
              sw_signals, sw_stops, sw_late, sw_query>>
indexVars == <<dispatch, iw_pc, iw_cancelled, iw_indexer, iw_mutex, ix_mutex,
               ix_running, ix_cancelled, ix_image_files, ix_i, features_dict,
               iw_slot, gui_pc, gui_queue, iw_signals, index_file, ix_wrote,
               iw_stops, iw_returned, iw_late>>
searchVars == <<exists, disk, indexes, isw_pc, isw_signals, mi_pc, mi_finished,
                results_per_index, unique_results, combined_results>>
storeVars == <<st_pc, new_record, fi_writing, st_written, st_prev, st_loaded,
               st_reread, st_last>>
dialogVars == <<dlg_pc, model_combo, extractor_combo, output_path, existing_indexes,
                selected_extractor, index_dir, xs_last>>
vars == <<inputVars, scanVars, indexVars, searchVars, storeVars, dialogVars, cf_call>>

\* ------------------------------------------------------------- helpers
\* An emitted Qt signal: its name, its int argument, its list argument (for
\* index_failed: the message, as a list of one string).
Sig(name, val, list) == [sig |-> name, val |-> val, list |-> list]

Emitted(signals, name) == {k \in 1..Len(signals) : signals[k].sig = name}

\* A (path, similarity) tuple of a result list.
Hit(path, sim) == [path |-> path, sim |-> sim]

\* Path(...).glob(pattern) for one extension: every image file matches the
\* pattern of its own case; the pattern of the other case matches the same
\* files again when the file system is case-insensitive, and nothing otherwise.
Glob(upperPattern) ==
    IF upperPattern /\ ~caseFold THEN <<>> ELSE [p \in 1..Len(folder) |-> p]

\* image_files: the lower-case pattern, then the upper-case pattern.
ImageFiles == Glob(FALSE) \o Glob(TRUE)

\* A descending sort that places e before the elements of equal similarity.
SortPosition_Unstable(t, e) == Cardinality({k \in 1..Len(t) : t[k].sim > e.sim})

\* Position at which list.sort(key=similarity, reverse=True) places e in the
\* already sorted list t: after every element whose similarity is >= e's.
SortPosition(t, e) == Cardinality({k \in 1..Len(t) : t[k].sim >= e.sim})

\* results.sort(key=lambda x: x[1], reverse=True): stable, descending.
RECURSIVE SortResults(_)
SortResults(s) ==
    IF s = <<>> THEN <<>>
    ELSE LET t == SortResults(SubSeq(s, 1, Len(s) - 1))
             e == s[Len(s)]
             p == SortPosition(t, e)
         IN SubSeq(t, 1, p) \o <<e>> \o SubSeq(t, p + 1, Len(t))

\* if max_results > 0: results = results[:max_results]
Truncate(s, limit) ==
    IF limit > 0 THEN SubSeq(s, 1, IF Len(s) < limit THEN Len(s) ELSE limit) ELSE s

\* a percentage of the files still to do
Percent_Remaining(done, total) == (100 * (total - done)) \div total

\* int(100 * done / total)
Percent(done, total) == (100 * done) \div total

\* No indexing run exists.
IndexOff ==
    /\ dispatch = "direct" /\ iw_pc = "off" /\ iw_cancelled = FALSE
    /\ iw_indexer = FALSE /\ iw_mutex = "free" /\ ix_mutex = "free"
    /\ ix_running = TRUE /\ ix_cancelled = FALSE /\ ix_image_files = <<>>
    /\ ix_i = 0 /\ features_dict = <<>> /\ iw_slot = "none" /\ gui_pc = "idle"
    /\ gui_queue = <<>> /\ iw_signals = <<>> /\ index_file = [kind |-> "missing", features |-> <<>>]
    /\ ix_wrote = FALSE /\ iw_stops = 0 /\ iw_returned = 0 /\ iw_late = 0

\* The index paths given to the searches.
index_paths == <<1, 2>>

IndexKeys == {index_paths[k] : k \in 1..Len(index_paths)}

Unloaded == [kind |-> "unloaded", known |-> FALSE, features |-> <<>>]

NoFile == [kind |-> "missing", known |-> FALSE, features |-> <<>>]

\* No indexed search exists.
SearchOff ==
    /\ exists = {} /\ disk = [k \in IndexKeys |-> NoFile]
    /\ indexes = [k \in IndexKeys |-> Unloaded]
    /\ isw_pc = "off" /\ isw_signals = <<>> /\ mi_pc = "off" /\ mi_finished = <<>>
    /\ results_per_index = <<>> /\ unique_results = <<>> /\ combined_results = <<>>

\* No search has been made yet.
NoSearch ==
    [by |-> "none", used |-> Unloaded, stored |-> NoFile, read |-> FALSE,
     cached |-> Unloaded, writing |-> FALSE, written |-> FALSE]

\* No process with a shared index file exists.
StoreOff ==
    /\ st_pc = "off" /\ new_record = NoFile /\ fi_writing = FALSE
    /\ st_written = FALSE /\ st_prev = NoFile /\ st_loaded = FALSE
    /\ st_reread = FALSE /\ st_last = NoSearch

\* The names of the extractors AVAILABLE_EXTRACTORS always holds, as character
\* sequences: "S o" stands for "SIFT (объекты и формы)", "C g" for
\* "Цветовая гистограмма".
AVAILABLE_EXTRACTORS == << <<"S", " ", "o">>, <<"C", " ", "g">> >>

\* str.lower on one character
Lower(c) == CASE c = "S" -> "s" [] c = "C" -> "c" [] OTHER -> c

\* name.replace(" ", "_").lower(): the slug in the name of an index file
Slug(name) == [k \in 1..Len(name) |-> IF name[k] = " " THEN "_" ELSE Lower(name[k])]

\* The slugs of the index files image_index_<slug>.pkl the application names.
Slugs == {Slug(AVAILABLE_EXTRACTORS[e]) : e \in 1..Len(AVAILABLE_EXTRACTORS)}

NoName == <<>>

NoStartSearch ==
    [located |-> FALSE, query_by |-> NoName, index_by |-> NoName,
     compared |-> FALSE, rejected |-> FALSE]

NoResult == [kind |-> "none", sim |-> 0]

\* No call of compare_features is modelled.
CompareOff ==
    cf_call = [pc |-> "off", extractor |-> "none", features1 |-> "none", features2 |-> "none",
           elementwise |-> FALSE, initialized |-> FALSE, sim |-> 0, result |-> NoResult]

\* No control panel session exists.
DialogOff ==
    /\ dlg_pc = "off" /\ model_combo = 1 /\ extractor_combo = 1
    /\ output_path = NoName /\ existing_indexes = {} /\ selected_extractor = 1
    /\ index_dir = [s \in Slugs |-> NoName] /\ xs_last = NoStartSearch

\* ------------------------------------------------- SearchWorker (linear scan)
ScanOff ==
    /\ sw_pc = "off" /\ sw_running = TRUE /\ sw_cancelled = FALSE
    /\ sw_image_files = <<>> /\ sw_i = 0 /\ sw_results = <<>>
    /\ sw_signals = <<>> /\ sw_stops = 0 /\ sw_late = 0 /\ sw_query = "unset"

\* SearchWorker.__init__
InitScan ==
    /\ folder \in UNION {[1..n -> Outcomes] : n \in 0..MaxFiles}
    /\ caseFold \in BOOLEAN
    /\ similarity_threshold \in Thresholds
    /\ max_results \in Limits
    /\ old_index = [kind |-> "missing", features |-> <<>>]
    /\ StoreOff
    /\ CompareOff
    /\ DialogOff
    /\ sw_pc = "created" /\ sw_running = TRUE /\ sw_cancelled = FALSE
    /\ sw_image_files = <<>> /\ sw_i = 0 /\ sw_results = <<>>
    /\ sw_signals = <<>> /\ sw_stops = 0 /\ sw_late = 0 /\ sw_query = "unset"
    /\ IndexOff
    /\ SearchOff

\* search_worker.start(): the thread enters run
SW_Start ==
    /\ sw_pc = "created"
    /\ sw_pc' = "query"
    /\ UNCHANGED <<inputVars, cf_call, storeVars, dialogVars, sw_running, sw_cancelled, sw_image_files, sw_i,
                   sw_results, sw_signals, sw_stops, sw_late, sw_query, indexVars, searchVars>>

\* SearchWorker.stop, called from the GUI thread
SW_Stop ==
    /\ sw_pc \notin {"off", "created"}
    /\ sw_stops < MaxStops
    /\ sw_running' = FALSE
    /\ sw_cancelled' = TRUE
    /\ sw_stops' = sw_stops + 1
    /\ UNCHANGED <<inputVars, cf_call, storeVars, dialogVars, sw_pc, sw_image_files, sw_i, sw_results,
                   sw_signals, sw_late, sw_query, indexVars, searchVars>>

\* What extract_features returns for the query image: features ("ok"), one
\* of the Absent values (None, an empty array, the pair (None, None) of the
\* SIFT extractor), or an exception ("raise").
QueryOutcomes == {"ok", "none", "empty", "pair", "raise"}

\* query_features is None or len(query_features) == 0
QueryRejected(q) == q \in {"none", "empty"}

\* run, up to the loop: the query features, the enumeration, the empty folder
SW_Query ==
    /\ sw_pc = "query"
    /\ sw_late' = IF sw_stops > 0 THEN sw_late + 1 ELSE sw_late
    /\ \E q \in QueryOutcomes :
        /\ sw_query' = q
        /\ IF QueryRejected(q) \/ q = "raise"
           THEN /\ sw_signals' = Append(sw_signals, Sig("error_occurred", 0, <<>>))
                /\ sw_pc' = "done"
                /\ UNCHANGED sw_image_files
           ELSE /\ sw_image_files' = ImageFiles
                /\ IF Len(ImageFiles) = 0
                   THEN /\ sw_signals' = sw_signals
                               \o <<Sig("result_ready", 0, <<>>),
                                    Sig("progress_update", 100, <<>>)>>
                        /\ sw_pc' = "done"
                   ELSE /\ sw_signals' = sw_signals
                        /\ sw_pc' = "check"
    /\ UNCHANGED <<inputVars, cf_call, storeVars, dialogVars, sw_running, sw_cancelled, sw_i, sw_results, sw_stops,
                   indexVars, searchVars>>

\* the per-file cancellation check under the mutex, then the progress signal
SW_Check ==
    /\ sw_pc = "check"
    /\ IF ~sw_running
       THEN /\ sw_signals' = IF sw_cancelled
                             THEN Append(sw_signals, Sig("search_cancelled", 0, <<>>))
                             ELSE sw_signals
            /\ sw_pc' = "finish"
       ELSE /\ sw_signals' = Append(sw_signals,
                    Sig("progress_update", Percent(sw_i, Len(sw_image_files)), <<>>))
            /\ sw_pc' = "extract"
    /\ UNCHANGED <<inputVars, cf_call, storeVars, dialogVars, sw_running, sw_cancelled, sw_image_files, sw_i,
                   sw_results, sw_stops, sw_late, sw_query, indexVars, searchVars>>

\* extract_features and compare_features on image file p for the query q:
\* SIFT's compare_features returns 0.0 when the query is the pair (None, None)
Compared(q, p) ==
    IF q = "pair" /\ folder[p].kind = "ok" THEN [kind |-> "ok", sim |-> 0] ELSE folder[p]

\* results of the loop body for image file p
ScanFile(results, p) ==
    IF Compared(sw_query, p).kind = "ok" /\ Compared(sw_query, p).sim >= similarity_threshold
    THEN Append(results, Hit(p, Compared(sw_query, p).sim))
    ELSE results

\* the loop body: extract, compare, keep
SW_Process ==
    /\ sw_pc = "extract"
    /\ sw_results' = ScanFile(sw_results, sw_image_files[sw_i + 1])
    /\ sw_i' = sw_i + 1
    /\ sw_late' = IF sw_stops > 0 THEN sw_late + 1 ELSE sw_late
    /\ sw_pc' = IF sw_i + 1 = Len(sw_image_files) THEN "finish" ELSE "check"
    /\ UNCHANGED <<inputVars, cf_call, storeVars, dialogVars, sw_running, sw_cancelled, sw_image_files,
                   sw_signals, sw_stops, sw_query, indexVars, searchVars>>

\* the result list run emits after the loop
ScanResult(results) == Truncate(SortResults(results), max_results)

\* after the loop: sort, truncate, emit
SW_Finish ==
    /\ sw_pc = "finish"
    /\ sw_results' = ScanResult(sw_results)
    /\ sw_signals' = sw_signals
            \o <<Sig("result_ready", 0, ScanResult(sw_results)),
                 Sig("progress_update", 100, <<>>)>>
    /\ sw_pc' = "done"
    /\ UNCHANGED <<inputVars, cf_call, storeVars, dialogVars, sw_running, sw_cancelled, sw_image_files, sw_i,
                   sw_stops, sw_late, sw_query, indexVars, searchVars>>

NextScan == SW_Start \/ SW_Stop \/ SW_Query \/ SW_Check \/ SW_Process \/ SW_Finish

SpecScan == InitScan /\ [][NextScan]_vars

\* --------------------------------------- IndexWorker and FeatureIndexer
\* The outcome of extract_features alone (the similarity plays no part):
\* features ("ok"), None ("absent"), an empty array ("empty", the Absent value
\* of the DeepFace extractor), the pair (None, None) ("pair", the Absent value
\* of the SIFT extractor), an exception ("raise").
IndexOutcomes ==
    {o \in Outcomes : o.sim = 0}
        \cup {[kind |-> "empty", sim |-> 0], [kind |-> "pair", sim |-> 0]}

\* The index file before the run: none, or the record of an earlier run
\* (without entries, or with an entry for image file 1).
OldIndexFiles ==
    {[kind |-> "missing", features |-> <<>>], [kind |-> "record", features |-> <<>>],
     [kind |-> "record", features |-> <<1>>]}

\* IndexWorker.__init__ (the FeatureIndexer is created by run)
IndexWorkerCreated ==
    /\ folder \in UNION {[1..n -> IndexOutcomes] : n \in 0..MaxFiles}
    /\ caseFold \in BOOLEAN
    /\ similarity_threshold = 0
    /\ max_results = 0
    /\ ScanOff
    /\ SearchOff
    /\ dispatch \in {"direct", "queued"}
    /\ iw_pc = "created" /\ iw_cancelled = FALSE
    /\ iw_indexer = FALSE /\ iw_mutex = "free" /\ ix_mutex = "free"
    /\ ix_running = TRUE /\ ix_cancelled = FALSE /\ ix_image_files = <<>>
    /\ ix_i = 0 /\ features_dict = <<>> /\ iw_slot = "none" /\ gui_pc = "idle"
    /\ gui_queue = <<>> /\ iw_signals = <<>>
    /\ index_file \in OldIndexFiles
    /\ old_index = index_file
    /\ StoreOff
    /\ CompareOff
    /\ ix_wrote = FALSE /\ iw_stops = 0 /\ iw_returned = 0 /\ iw_late = 0

\* an IndexWorker made without a dialog session: no output_path is given
InitIndexer == IndexWorkerCreated /\ DialogOff

\* FeatureIndexer.__init__: the storage key is the given output_path or, when
\* none is given, the path formed from the slug of the extractor's name
OutputPath(given, extractor) ==
    IF given = NoName THEN Slug(AVAILABLE_EXTRACTORS[extractor]) ELSE given

\* self.output_path of the run's FeatureIndexer
IndexerOutputPath == OutputPath(output_path, selected_extractor)

\* index_worker.start(): the thread enters IndexWorker.run
IW_Start ==
    /\ iw_pc = "created"
    /\ iw_pc' = "run"
    /\ UNCHANGED <<inputVars, cf_call, storeVars, dialogVars, scanVars, searchVars, dispatch, iw_cancelled, iw_indexer, iw_mutex,
                   ix_mutex, ix_running, ix_cancelled, ix_image_files, ix_i,
                   features_dict, iw_slot, gui_pc, gui_queue, iw_signals,
                   index_file, ix_wrote, iw_stops, iw_returned, iw_late>>

\* IndexWorker.run: self.indexer = FeatureIndexer(...), the signal connections
IW_Create ==
    /\ iw_pc = "run"
    /\ iw_indexer' = TRUE
    /\ ix_running' = TRUE
    /\ ix_cancelled' = FALSE
    /\ iw_pc' = "enumerate"
    /\ UNCHANGED <<inputVars, cf_call, storeVars, dialogVars, scanVars, searchVars, dispatch, iw_cancelled, iw_mutex,
                   ix_mutex, ix_image_files, ix_i,
                   features_dict, iw_slot, gui_pc, gui_queue, iw_signals,
                   index_file, ix_wrote, iw_stops, iw_returned, iw_late>>

\* a stop that emits index_cancelled itself
IW_Stop_Emits ==
    /\ gui_pc = "idle"
    /\ iw_pc \notin {"off", "created"}
    /\ iw_stops < MaxStops
    /\ iw_mutex = "free"
    /\ iw_cancelled' = TRUE
    /\ iw_stops' = iw_stops + 1
    /\ iw_signals' = Append(iw_signals, Sig("index_cancelled", 0, <<>>))
    /\ IF iw_indexer
       THEN /\ iw_mutex' = "gui"
            /\ gui_pc' = "stop_indexer"
            /\ UNCHANGED iw_returned
       ELSE /\ iw_returned' = iw_returned + 1
            /\ UNCHANGED <<iw_mutex, gui_pc>>
    /\ UNCHANGED <<inputVars, cf_call, storeVars, dialogVars, scanVars, searchVars, dispatch, iw_pc, iw_indexer,
                   ix_mutex, ix_running, ix_cancelled, ix_image_files, ix_i,
                   features_dict, iw_slot, gui_queue,
                   index_file, ix_wrote, iw_late>>

\* IndexWorker.stop, first half: lock the worker, set cancelled, look for the indexer
IW_Stop ==
    /\ gui_pc = "idle"
    /\ iw_pc \notin {"off", "created"}
    /\ iw_stops < MaxStops
    /\ iw_mutex = "free"
    /\ iw_cancelled' = TRUE
    /\ iw_stops' = iw_stops + 1
    /\ IF iw_indexer
       THEN /\ iw_mutex' = "gui"
            /\ gui_pc' = "stop_indexer"
            /\ UNCHANGED iw_returned
       ELSE /\ iw_returned' = iw_returned + 1
            /\ UNCHANGED <<iw_mutex, gui_pc>>
    /\ UNCHANGED <<inputVars, cf_call, storeVars, dialogVars, scanVars, searchVars, dispatch, iw_pc, iw_indexer,
                   ix_mutex, ix_running, ix_cancelled, ix_image_files, ix_i,
                   features_dict, iw_slot, gui_queue, iw_signals,
                   index_file, ix_wrote, iw_late>>

\* FeatureIndexer.stop under the indexer's mutex, then IndexWorker.stop returns
IX_Stop ==
    /\ gui_pc = "stop_indexer"
    /\ ix_mutex = "free"
    /\ ix_running' = FALSE
    /\ ix_cancelled' = TRUE
    /\ iw_mutex' = "free"
    /\ gui_pc' = "idle"
    /\ iw_returned' = iw_returned + 1
    /\ UNCHANGED <<inputVars, cf_call, storeVars, dialogVars, scanVars, searchVars, dispatch, iw_pc, iw_cancelled, iw_indexer,
                   ix_mutex, ix_image_files, ix_i,
                   features_dict, iw_slot, gui_queue, iw_signals,
                   index_file, ix_wrote, iw_stops, iw_late>>

\* the enumeration without the test of total_files: an empty folder goes on
\* to the (empty) loop and to the save
IX_Enumerate_NoEmptyCheck ==
    /\ iw_pc = "enumerate"
    /\ ix_image_files' = ImageFiles
    /\ iw_pc' = IF Len(ImageFiles) = 0 THEN "save" ELSE "check"
    /\ UNCHANGED <<inputVars, cf_call, storeVars, dialogVars, scanVars, searchVars, dispatch, iw_cancelled, iw_indexer, iw_mutex,
                   ix_mutex, ix_running, ix_cancelled, ix_i, iw_slot,
                   features_dict, gui_pc, gui_queue, iw_signals,
                   index_file, ix_wrote, iw_stops, iw_returned, iw_late>>

\* FeatureIndexer.run: the enumeration and the empty folder
IX_Enumerate ==
    /\ iw_pc = "enumerate"
    /\ ix_image_files' = ImageFiles
    /\ IF Len(ImageFiles) = 0
       THEN /\ iw_slot' = "no_images"
            /\ iw_pc' = "emit"
       ELSE /\ iw_slot' = iw_slot
            /\ iw_pc' = "check"
    /\ UNCHANGED <<inputVars, cf_call, storeVars, dialogVars, scanVars, searchVars, dispatch, iw_cancelled, iw_indexer, iw_mutex,
                   ix_mutex, ix_running, ix_cancelled, ix_i,
                   features_dict, gui_pc, gui_queue, iw_signals,
                   index_file, ix_wrote, iw_stops, iw_returned, iw_late>>

\* the per-file check under the indexer's mutex; a stop observed here emits
\* index_failed with the mutex still held
IX_Check ==
    /\ iw_pc = "check"
    /\ ix_mutex = "free"
    /\ IF ~ix_running
       THEN IF ix_cancelled
            THEN /\ ix_mutex' = "worker"
                 /\ iw_slot' = "cancelled"
                 /\ iw_pc' = "emit"
            ELSE /\ iw_pc' = "done"
                 /\ UNCHANGED <<ix_mutex, iw_slot>>
       ELSE /\ iw_pc' = "extract"
            /\ UNCHANGED <<ix_mutex, iw_slot>>
    /\ UNCHANGED <<inputVars, cf_call, storeVars, dialogVars, scanVars, searchVars, dispatch, iw_cancelled, iw_indexer, iw_mutex,
                   ix_running, ix_cancelled, ix_image_files, ix_i,
                   features_dict, gui_pc, gui_queue, iw_signals,
                   index_file, ix_wrote, iw_stops, iw_returned, iw_late>>

\* a loop body that leaves out the files the stored record has an entry for
PutFeatures_SkipsIndexed(dict, p) ==
    IF /\ folder[p].kind \in {"ok", "empty", "pair"}
       /\ \A k \in 1..Len(dict) : dict[k] # p
       /\ \A k \in 1..Len(old_index.features) : old_index.features[k] # p
    THEN Append(dict, p)
    ELSE dict

\* features_dict[img_path] = features, when features is not None
PutFeatures(dict, p) ==
    IF folder[p].kind \in {"ok", "empty", "pair"} /\ \A k \in 1..Len(dict) : dict[k] # p
    THEN Append(dict, p)
    ELSE dict

\* a loop body without the inner try: an exception of extract_features
\* reaches the handler of run, which emits index_failed
IX_Extract_RaiseAborts ==
    /\ iw_pc = "extract"
    /\ IF folder[ix_image_files[ix_i + 1]].kind = "raise"
       THEN /\ iw_slot' = "error"
            /\ iw_pc' = "emit"
            /\ UNCHANGED <<features_dict, iw_signals>>
       ELSE /\ features_dict' = PutFeatures(features_dict, ix_image_files[ix_i + 1])
            /\ iw_signals' = Append(iw_signals,
                    Sig("progress_update", Percent(ix_i + 1, Len(ix_image_files)), <<>>))
            /\ iw_pc' = IF ix_i + 1 = Len(ix_image_files) THEN "save" ELSE "check"
            /\ UNCHANGED iw_slot
    /\ ix_i' = ix_i + 1
    /\ iw_late' = IF iw_returned > 0 THEN iw_late + 1 ELSE iw_late
    /\ UNCHANGED <<inputVars, cf_call, storeVars, dialogVars, scanVars, searchVars, dispatch, iw_cancelled, iw_indexer, iw_mutex,
                   ix_mutex, ix_running, ix_cancelled, ix_image_files,
                   gui_pc, gui_queue,
                   index_file, ix_wrote, iw_stops, iw_returned>>

\* the loop body: extract, store, emit the progress
IX_Extract ==
    /\ iw_pc = "extract"
    /\ features_dict' = PutFeatures(features_dict, ix_image_files[ix_i + 1])
    /\ ix_i' = ix_i + 1
    /\ iw_signals' = Append(iw_signals,
            Sig("progress_update", Percent(ix_i + 1, Len(ix_image_files)), <<>>))
    /\ iw_late' = IF iw_returned > 0 THEN iw_late + 1 ELSE iw_late
    /\ iw_pc' = IF ix_i + 1 = Len(ix_image_files) THEN "save" ELSE "check"
    /\ UNCHANGED <<inputVars, cf_call, storeVars, dialogVars, scanVars, searchVars, dispatch, iw_cancelled, iw_indexer, iw_mutex,
                   ix_mutex, ix_running, ix_cancelled, ix_image_files,
                   iw_slot, gui_pc, gui_queue,
                   index_file, ix_wrote, iw_stops, iw_returned>>

\* what open(output_path, 'wb') and pickle.dump leave at output_path
SavedFile(how, dict) ==
    CASE how = "ok" -> [kind |-> "record", features |-> dict]
      [] how = "dump_raises" -> [kind |-> "partial", features |-> <<>>]
      [] OTHER -> index_file

\* a save that announces the completion without having written the file
IX_Save_EmitsBeforeWrite ==
    /\ iw_pc = "save"
    /\ iw_slot' = "completed"
    /\ iw_pc' = "emit"
    /\ UNCHANGED <<inputVars, cf_call, storeVars, dialogVars, scanVars, searchVars, dispatch, iw_cancelled, iw_indexer, iw_mutex,
                   ix_mutex, ix_running, ix_cancelled, ix_image_files, ix_i,
                   features_dict, gui_pc, gui_queue, iw_signals, index_file, ix_wrote,
                   iw_stops, iw_returned, iw_late>>

\* after the loop: write the index file, then emit index_completed; an
\* exception of open or of pickle.dump emits index_failed instead
IX_Save ==
    /\ iw_pc = "save"
    /\ \E how \in {"ok", "open_raises", "dump_raises"} :
        /\ index_file' = SavedFile(how, features_dict)
        /\ ix_wrote' = (how # "open_raises")
        /\ iw_slot' = IF how = "ok" THEN "completed" ELSE "error"
    /\ iw_pc' = "emit"
    /\ UNCHANGED <<inputVars, cf_call, storeVars, dialogVars, scanVars, searchVars, dispatch, iw_cancelled, iw_indexer, iw_mutex,
                   ix_mutex, ix_running, ix_cancelled, ix_image_files, ix_i,
                   features_dict, gui_pc, gui_queue, iw_signals,
                   iw_stops, iw_returned, iw_late>>

\* handlers that pass the indexer's signal on without looking at cancelled
HandleIndexSignal_NoCancelTest(slot) ==
    IF slot = "completed"
    THEN Sig("index_completed", 0, IndexerOutputPath)
    ELSE Sig("index_failed", 0, <<slot>>)

\* handle_index_completed / handle_index_failed under the worker's mutex;
\* slot is "completed" or the reason of the indexer's index_failed, which
\* handle_index_failed passes on as the message of its own index_failed;
\* handle_index_completed passes on the path the indexer emitted, its output_path
HandleIndexSignal(slot) ==
    IF iw_cancelled
    THEN Sig("index_cancelled", 0, <<>>)
    ELSE IF slot = "completed"
         THEN Sig("index_completed", 0, IndexerOutputPath)
         ELSE Sig("index_failed", 0, <<slot>>)

\* a direct connection whose slot is connected twice
IW_SlotDirect_Twice ==
    /\ iw_pc = "emit"
    /\ dispatch = "direct"
    /\ iw_mutex = "free"
    /\ iw_signals' = iw_signals \o <<HandleIndexSignal(iw_slot), HandleIndexSignal(iw_slot)>>
    /\ iw_slot' = "none"
    /\ ix_mutex' = "free"
    /\ iw_pc' = "done"
    /\ UNCHANGED <<inputVars, cf_call, storeVars, dialogVars, scanVars, searchVars, dispatch, iw_cancelled, iw_indexer, iw_mutex,
                   ix_running, ix_cancelled, ix_image_files, ix_i,
                   features_dict, gui_pc, gui_queue,
                   index_file, ix_wrote, iw_stops, iw_returned, iw_late>>

\* a direct connection: the slot runs inside emit, on the worker thread
IW_SlotDirect ==
    /\ iw_pc = "emit"
    /\ dispatch = "direct"
    /\ iw_mutex = "free"
    /\ iw_signals' = Append(iw_signals, HandleIndexSignal(iw_slot))
    /\ iw_slot' = "none"
    /\ ix_mutex' = "free"
    /\ iw_pc' = "done"
    /\ UNCHANGED <<inputVars, cf_call, storeVars, dialogVars, scanVars, searchVars, dispatch, iw_cancelled, iw_indexer, iw_mutex,
                   ix_running, ix_cancelled, ix_image_files, ix_i,
                   features_dict, gui_pc, gui_queue,
                   index_file, ix_wrote, iw_stops, iw_returned, iw_late>>

\* a queued connection: emit posts the slot call to the GUI thread and returns
IW_Post ==
    /\ iw_pc = "emit"
    /\ dispatch = "queued"
    /\ gui_queue' = Append(gui_queue, iw_slot)
    /\ iw_slot' = "none"
    /\ ix_mutex' = "free"
    /\ iw_pc' = "done"
    /\ UNCHANGED <<inputVars, cf_call, storeVars, dialogVars, scanVars, searchVars, dispatch, iw_cancelled, iw_indexer, iw_mutex,
                   ix_running, ix_cancelled, ix_image_files, ix_i,
                   features_dict, gui_pc, iw_signals,
                   index_file, ix_wrote, iw_stops, iw_returned, iw_late>>

\* the GUI thread's event loop runs a queued slot call
GUI_Deliver ==
    /\ gui_pc = "idle"
    /\ gui_queue # <<>>
    /\ iw_mutex = "free"
    /\ iw_signals' = Append(iw_signals, HandleIndexSignal(Head(gui_queue)))
    /\ gui_queue' = Tail(gui_queue)
    /\ UNCHANGED <<inputVars, cf_call, storeVars, dialogVars, scanVars, searchVars, dispatch, iw_pc, iw_cancelled, iw_indexer,
                   iw_mutex, ix_mutex, ix_running, ix_cancelled, ix_image_files, ix_i,
                   features_dict, iw_slot, gui_pc,
                   index_file, ix_wrote, iw_stops, iw_returned, iw_late>>

NextIndexer ==
    \/ IW_Start \/ IW_Create \/ IW_Stop \/ IX_Stop \/ IX_Enumerate \/ IX_Check
    \/ IX_Extract \/ IX_Save \/ IW_SlotDirect \/ IW_Post \/ GUI_Deliver

SpecIndexer == InitIndexer /\ [][NextIndexer]_vars

\* ------------------------------ BatchSearchProcessor.search_in_index
\* The outcome of comparing the query with one stored feature payload: "ok"
\* (the shapes agree, compare_features returns sim), "mismatch" (both are
\* arrays and their flattened shapes differ; compare_features, were it
\* called, would return MaxScore), "raise" (compare_features raises).
CompareOutcomes ==
    [kind : {"ok"}, sim : Scores]
        \cup {[kind |-> "mismatch", sim |-> MaxScore], [kind |-> "raise", sim |-> 0]}

Entry(path, cmp) == [path |-> path, cmp |-> cmp]

\* The index records whose entries draw their outcomes from outs, in any
\* key order or (ordered) in the order of the paths.
Records(outs, ordered) ==
    {[kind |-> "record", known |-> TRUE, features |-> f] :
        f \in {g \in UNION {[1..n -> [path : 1..MaxFiles, cmp : outs]] : n \in 0..MaxFiles} :
                \A a, b \in 1..Len(g) :
                    a < b => IF ordered THEN g[a].path < g[b].path
                                        ELSE g[a].path # g[b].path}}

\* Index files that give no result: absent, not unpicklable, unpickled to
\* something that is no record, built by an extractor that is not available.
UnusableFiles ==
    {NoFile,
     [kind |-> "corrupt", known |-> FALSE, features |-> <<>>],
     [kind |-> "invalid", known |-> FALSE, features |-> <<>>],
     [kind |-> "record", known |-> FALSE,
      features |-> <<Entry(1, [kind |-> "ok", sim |-> MaxScore])>>]}

\* load_index: the cache after the call (unchanged when open or pickle.load raise)
LoadIndex(cache, k) ==
    IF disk[k].kind \in {"missing", "corrupt", "partial"} THEN cache
    ELSE [cache EXCEPT ![k] = disk[k]]

\* a lazy load that also drops from the cached record the entries whose
\* files are gone
EnsureLoaded_PrunesMissing(cache, k) ==
    LET c == IF cache[k].kind = "unloaded" THEN LoadIndex(cache, k) ELSE cache
    IN [c EXCEPT ![k].features = SelectSeq(c[k].features, LAMBDA e : e.path \in exists)]

\* search_in_index, the lazy load
EnsureLoaded(cache, k) ==
    IF cache[k].kind = "unloaded" THEN LoadIndex(cache, k) ELSE cache

\* the loop body without the os.path.exists test
KeepEntry_NoExistsCheck(results, e, threshold) ==
    IF e.cmp.kind = "mismatch" THEN results
    ELSE IF e.cmp.kind = "raise" THEN results
    ELSE IF e.cmp.sim >= threshold THEN Append(results, Hit(e.path, e.cmp.sim))
    ELSE results

\* the loop body of search_in_index for one (img_path, features) item
KeepEntry(results, e, threshold) ==
    IF e.path \notin exists THEN results
    ELSE IF e.cmp.kind = "mismatch" THEN results
    ELSE IF e.cmp.kind = "raise" THEN results
    ELSE IF e.cmp.sim >= threshold THEN Append(results, Hit(e.path, e.cmp.sim))
    ELSE results

\* the loop of search_in_index over features_dict.items()
RECURSIVE CompareAll(_, _)
CompareAll(features, threshold) ==
    IF features = <<>> THEN <<>>
    ELSE KeepEntry(CompareAll(SubSeq(features, 1, Len(features) - 1), threshold),
                   features[Len(features)], threshold)

\* search_in_index once the index is looked up in the cache: c is the cache
\* entry (still unloaded when load_index returned False); whether the call
\* raises, and the list it returns
SearchRecord(c, threshold, limit) ==
    CASE c.kind = "unloaded" -> [raised |-> FALSE, results |-> <<>>]
      [] c.kind = "invalid" -> [raised |-> TRUE, results |-> <<>>]
      [] c.kind = "record" /\ ~c.known -> [raised |-> FALSE, results |-> <<>>]
      [] OTHER -> [raised |-> FALSE,
                   results |-> Truncate(SortResults(CompareAll(c.features, threshold)),
                                        limit)]

\* search_in_index(query_features, k, threshold, limit) on the cache
SearchInIndex(cache, k, threshold, limit) ==
    SearchRecord(EnsureLoaded(cache, k)[k], threshold, limit)

\* ------------------------------------------------ IndexedSearchWorker
\* the index path IndexedSearchWorker searches
index_path == index_paths[1]

\* IndexedSearchWorker.__init__
InitSearch ==
    /\ folder = <<>> /\ caseFold = FALSE
    /\ similarity_threshold \in Thresholds
    /\ max_results \in Limits
    /\ old_index = [kind |-> "missing", features |-> <<>>]
    /\ StoreOff
    /\ CompareOff
    /\ DialogOff
    /\ ScanOff
    /\ IndexOff
    /\ exists \in SUBSET (1..MaxFiles)
    /\ disk \in {[k \in IndexKeys |-> IF k = index_path THEN c ELSE NoFile] :
                    c \in Records(CompareOutcomes, FALSE) \cup UnusableFiles}
    /\ indexes = [k \in IndexKeys |-> Unloaded]
    /\ isw_pc = "created" /\ isw_signals = <<>> /\ mi_pc = "off" /\ mi_finished = <<>>
    /\ results_per_index = <<>> /\ unique_results = <<>> /\ combined_results = <<>>

\* indexed_search_worker.start()
ISW_Start ==
    /\ isw_pc = "created"
    /\ isw_pc' = "query"
    /\ UNCHANGED <<inputVars, cf_call, storeVars, dialogVars, scanVars, indexVars, exists, disk, indexes, isw_signals,
                   mi_pc, mi_finished, results_per_index, unique_results,
                   combined_results>>

\* run, the query features
ISW_Query ==
    /\ isw_pc = "query"
    /\ \E q \in {"ok", "absent", "raise"} :
        IF q = "ok"
        THEN /\ isw_signals' = isw_signals
                    \o <<Sig("progress_update", 10, <<>>), Sig("progress_update", 30, <<>>)>>
             /\ isw_pc' = "search"
        ELSE /\ isw_signals' = isw_signals
                    \o <<Sig("progress_update", 10, <<>>), Sig("error_occurred", 0, <<>>)>>
             /\ isw_pc' = "done"
    /\ UNCHANGED <<inputVars, cf_call, storeVars, dialogVars, scanVars, indexVars, exists, disk, indexes,
                   mi_pc, mi_finished, results_per_index, unique_results,
                   combined_results>>

\* run, search_in_index and the signals after it
ISW_Search ==
    /\ isw_pc = "search"
    /\ indexes' = EnsureLoaded(indexes, index_path)
    /\ LET r == SearchInIndex(indexes, index_path, similarity_threshold, max_results)
       IN isw_signals' =
            IF r.raised
            THEN Append(isw_signals, Sig("error_occurred", 0, <<>>))
            ELSE isw_signals \o <<Sig("progress_update", 90, <<>>),
                                  Sig("result_ready", 0, r.results),
                                  Sig("progress_update", 100, <<>>)>>
    /\ isw_pc' = "done"
    /\ UNCHANGED <<inputVars, cf_call, storeVars, dialogVars, scanVars, indexVars, exists, disk,
                   mi_pc, mi_finished, results_per_index, unique_results,
                   combined_results>>

\* ImageSearchApp.cancel_search: a running IndexedSearchWorker is terminated
\* (the thread is killed where it stands and emits nothing more), and the
\* window calls search_finished itself
ISW_Terminate ==
    /\ isw_pc \in {"query", "search"}
    /\ isw_pc' = "terminated"
    /\ UNCHANGED <<inputVars, cf_call, storeVars, dialogVars, scanVars, indexVars, exists, disk, indexes, isw_signals,
                   mi_pc, mi_finished, results_per_index, unique_results,
                   combined_results>>

NextSearch == ISW_Start \/ ISW_Query \/ ISW_Search \/ ISW_Terminate

SpecSearch == InitSearch /\ [][NextSearch]_vars

\* ---------------------------- MultiIndexSearch.search_in_multiple_indexes
\* the call of search_in_multiple_indexes
InitMulti ==
    /\ folder = <<>> /\ caseFold = FALSE
    /\ similarity_threshold \in Thresholds
    /\ max_results \in Limits
    /\ old_index = [kind |-> "missing", features |-> <<>>]
    /\ StoreOff
    /\ CompareOff
    /\ DialogOff
    /\ ScanOff
    /\ IndexOff
    /\ exists = 1..MaxFiles
    /\ disk \in [IndexKeys -> Records([kind : {"ok"}, sim : Scores], TRUE) \cup UnusableFiles]
    /\ indexes = [k \in IndexKeys |-> Unloaded]
    /\ isw_pc = "off" /\ isw_signals = <<>> /\ mi_pc = "called" /\ mi_finished = <<>>
    /\ results_per_index = <<>> /\ unique_results = <<>> /\ combined_results = <<>>

\* one thread per index path is created and started
MI_Start ==
    /\ mi_pc = "called"
    /\ mi_pc' = "threads"
    /\ UNCHANGED <<inputVars, cf_call, storeVars, dialogVars, scanVars, indexVars, exists, disk, indexes, isw_pc,
                   isw_signals, mi_finished, results_per_index, unique_results,
                   combined_results>>

\* results_per_index[k] = results
PutResults(perIndex, k, results) ==
    IF \E j \in 1..Len(perIndex) : perIndex[j].key = k
    THEN [j \in 1..Len(perIndex) |->
            IF perIndex[j].key = k THEN [key |-> k, results |-> results] ELSE perIndex[j]]
    ELSE Append(perIndex, [key |-> k, results |-> results])

\* a thread whose search raises takes the stored lists down with it
ThreadResults_RaiseClears(perIndex, cache, k, perLimit) ==
    LET r == SearchInIndex(cache, k, similarity_threshold, perLimit)
    IN IF r.raised THEN <<>> ELSE PutResults(perIndex, k, r.results)

\* search_in_one_index(k), the body of a thread: per-index search with perLimit
ThreadResults(perIndex, cache, k, perLimit) ==
    LET r == SearchInIndex(cache, k, similarity_threshold, perLimit)
    IN IF r.raised THEN perIndex ELSE PutResults(perIndex, k, r.results)

\* the limit search_in_one_index passes to search_in_index
PerIndexLimit == max_results

\* the thread of index path k runs to its end
MI_Thread(k) ==
    /\ mi_pc = "threads"
    /\ \A j \in 1..Len(mi_finished) : mi_finished[j] # k
    /\ indexes' = EnsureLoaded(indexes, k)
    /\ results_per_index' = ThreadResults(results_per_index, indexes, k, PerIndexLimit)
    /\ mi_finished' = Append(mi_finished, k)
    /\ UNCHANGED <<inputVars, cf_call, storeVars, dialogVars, scanVars, indexVars, exists, disk, isw_pc,
                   isw_signals, mi_pc, unique_results, combined_results>>

\* all_results: the per-index lists, concatenated in the order of the dict
RECURSIVE AllResults(_)
AllResults(perIndex) ==
    IF perIndex = <<>> THEN <<>>
    ELSE perIndex[1].results \o AllResults(Tail(perIndex))

\* the duplicate removal without the comparison of the similarities
UniqueStep_KeepFirst(unique, h) ==
    IF \E j \in 1..Len(unique) : unique[j].path = h.path
    THEN unique
    ELSE Append(unique, h)

\* one step of the duplicate removal: a new path is inserted at the end, a
\* known path keeps its place and takes the larger similarity
UniqueStep(unique, h) ==
    IF \E j \in 1..Len(unique) : unique[j].path = h.path
    THEN [j \in 1..Len(unique) |->
            IF unique[j].path = h.path /\ h.sim > unique[j].sim THEN h ELSE unique[j]]
    ELSE Append(unique, h)

\* unique_results, as the list of its items
RECURSIVE UniqueResults(_)
UniqueResults(all) ==
    IF all = <<>> THEN <<>>
    ELSE UniqueStep(UniqueResults(SubSeq(all, 1, Len(all) - 1)), all[Len(all)])

\* the list returned for the per-index lists perIndex
CombinedResults(perIndex, limit) ==
    Truncate(SortResults(UniqueResults(AllResults(perIndex))), limit)

\* every thread is joined; merge, remove duplicates, sort, truncate
MI_Merge ==
    /\ mi_pc = "threads"
    /\ Len(mi_finished) = Len(index_paths)
    /\ unique_results' = UniqueResults(AllResults(results_per_index))
    /\ combined_results' = CombinedResults(results_per_index, max_results)
    /\ mi_pc' = "done"
    /\ UNCHANGED <<inputVars, cf_call, storeVars, dialogVars, scanVars, indexVars, exists, disk, indexes, isw_pc,
                   isw_signals, mi_finished, results_per_index>>

NextMulti == MI_Start \/ (\E k \in IndexKeys : MI_Thread(k)) \/ MI_Merge

SpecMulti == InitMulti /\ [][NextMulti]_vars

\* ------------- one index file, an indexing run that writes it, the searches
\* The records stored at the shared index path: every entry compares to MaxScore.
StoreRecords == Records([kind : {"ok"}, sim : {MaxScore}], TRUE)

\* What a reader finds at output_path between open(output_path, 'wb') and the
\* end of pickle.dump: a truncated pickle, which pickle.load rejects.
PartialFile == [kind |-> "partial", known |-> FALSE, features |-> <<>>]

\* A process with a long-lived BatchSearchProcessor, whose index file (absent,
\* or the record of an earlier run) an indexing run is about to write.
InitStore ==
    /\ folder = <<>> /\ caseFold = FALSE
    /\ similarity_threshold = 0
    /\ max_results = 0
    /\ old_index = [kind |-> "missing", features |-> <<>>]
    /\ ScanOff
    /\ IndexOff
    /\ exists = 1..MaxFiles
    /\ disk \in {[k \in IndexKeys |-> IF k = index_path THEN c ELSE NoFile] :
                    c \in StoreRecords \cup {NoFile}}
    /\ indexes = [k \in IndexKeys |-> Unloaded]
    /\ isw_pc = "off" /\ isw_signals = <<>> /\ mi_pc = "off" /\ mi_finished = <<>>
    /\ results_per_index = <<>> /\ unique_results = <<>> /\ combined_results = <<>>
    /\ DialogOff
    /\ CompareOff
    /\ st_pc = "on" /\ new_record \in StoreRecords /\ fi_writing = FALSE
    /\ st_written = FALSE /\ st_prev = NoFile /\ st_loaded = FALSE
    /\ st_reread = FALSE /\ st_last = NoSearch

\* What a search_in_index call of a processor with the cache `cache` does with
\* the index file: the search as st_last records it.
SearchOf(by, cache) ==
    [by |-> by,
     used |-> EnsureLoaded(cache, index_path)[index_path],
     stored |-> disk[index_path],
     read |-> cache[index_path].kind = "unloaded",
     cached |-> cache[index_path],
     writing |-> fi_writing,
     written |-> st_written]

\* the bookkeeping of the reads of the index file
StoreRead(search) ==
    /\ st_last' = search
    /\ st_reread' = (st_reread \/ (search.read /\ st_loaded))
    /\ st_loaded' = (st_loaded \/ (search.read /\ search.used.kind # "unloaded"))

\* search_in_index on the long-lived processor: the lazy load, then the search
ST_Search ==
    /\ st_pc = "on"
    /\ indexes' = EnsureLoaded(indexes, index_path)
    /\ StoreRead(SearchOf("cached", indexes))
    /\ UNCHANGED <<inputVars, cf_call, dialogVars, scanVars, indexVars, exists, disk, isw_pc, isw_signals,
                   mi_pc, mi_finished, results_per_index, unique_results,
                   combined_results, st_pc, new_record, fi_writing, st_written, st_prev>>

\* an indexed search of the main window: the IndexedSearchWorker creates its
\* own BatchSearchProcessor, whose cache is empty, and searches with it
ST_FreshSearch ==
    /\ st_pc = "on"
    /\ StoreRead(SearchOf("fresh", [k \in IndexKeys |-> Unloaded]))
    /\ UNCHANGED <<inputVars, cf_call, dialogVars, scanVars, indexVars, searchVars,
                   st_pc, new_record, fi_writing, st_written, st_prev>>

\* FeatureIndexer.run: open(self.output_path, 'wb') truncates the index file
FI_Open ==
    /\ st_pc = "on"
    /\ ~fi_writing /\ ~st_written
    /\ st_prev' = disk[index_path]
    /\ disk' = [disk EXCEPT ![index_path] = PartialFile]
    /\ fi_writing' = TRUE
    /\ UNCHANGED <<inputVars, cf_call, dialogVars, scanVars, indexVars, exists, indexes, isw_pc, isw_signals,
                   mi_pc, mi_finished, results_per_index, unique_results,
                   combined_results, st_pc, new_record, st_written, st_loaded,
                   st_reread, st_last>>

\* FeatureIndexer.run: pickle.dump completes and the file is closed
FI_Dump ==
    /\ st_pc = "on"
    /\ fi_writing
    /\ disk' = [disk EXCEPT ![index_path] = new_record]
    /\ fi_writing' = FALSE
    /\ st_written' = TRUE
    /\ UNCHANGED <<inputVars, cf_call, dialogVars, scanVars, indexVars, exists, indexes, isw_pc, isw_signals,
                   mi_pc, mi_finished, results_per_index, unique_results,
                   combined_results, st_pc, new_record, st_prev, st_loaded,
                   st_reread, st_last>>

NextStore == ST_Search \/ ST_FreshSearch \/ FI_Open \/ FI_Dump

SpecStore == InitStore /\ [][NextStore]_vars

\* ---------------- the control panel, the indexing dialog, start_search
Extractors == 1..Len(AVAILABLE_EXTRACTORS)

\* The extractor whose name has the slug s (find_existing_indexes matches the
\* file name against the slugs of the available extractors).
MatchingExtractor(s) == CHOOSE e \in Extractors : Slug(AVAILABLE_EXTRACTORS[e]) = s

\* The main window with a folder chosen; each index file of the folder is
\* absent or was built by the extractor its name stands for.
InitDialog ==
    /\ folder = <<>> /\ caseFold = FALSE
    /\ similarity_threshold = 0
    /\ max_results = 0
    /\ old_index = [kind |-> "missing", features |-> <<>>]
    /\ ScanOff
    /\ IndexOff
    /\ SearchOff
    /\ StoreOff
    /\ CompareOff
    /\ dlg_pc = "closed" /\ model_combo \in Extractors /\ extractor_combo = 1
    /\ output_path = NoName /\ existing_indexes = {} /\ selected_extractor = 1
    /\ index_dir \in {[s \in Slugs |-> IF s \in built
                                         THEN AVAILABLE_EXTRACTORS[MatchingExtractor(s)]
                                         ELSE NoName] : built \in SUBSET Slugs}
    /\ xs_last = NoStartSearch

\* the user picks an extractor in the control panel
CP_SelectModel ==
    /\ dlg_pc = "closed"
    /\ \E e \in Extractors : model_combo' = e
    /\ UNCHANGED <<inputVars, cf_call, scanVars, indexVars, searchVars, storeVars, dlg_pc,
                   extractor_combo, output_path, existing_indexes, selected_extractor,
                   index_dir, xs_last>>

\* ControlPanel.index_folder, ImageSearchApp.show_index_dialog and
\* IndexDialog.__init__: the index path is formed from the extractor of the
\* control panel, the dialog lists the index files whose name matches an
\* extractor and presets its own combo box to the extractor it was given
CP_IndexFolder ==
    /\ dlg_pc = "closed"
    /\ output_path' = Slug(AVAILABLE_EXTRACTORS[model_combo])
    /\ existing_indexes' = {s \in Slugs : index_dir[s] # NoName}
    /\ extractor_combo' = model_combo
    /\ dlg_pc' = "open"
    /\ UNCHANGED <<inputVars, cf_call, scanVars, indexVars, searchVars, storeVars, model_combo,
                   selected_extractor, index_dir, xs_last>>

\* the user picks an extractor in the dialog
DLG_SelectExtractor ==
    /\ dlg_pc = "open"
    /\ \E e \in Extractors : extractor_combo' = e
    /\ UNCHANGED <<inputVars, cf_call, scanVars, indexVars, searchVars, storeVars, dlg_pc,
                   model_combo, output_path, existing_indexes, selected_extractor,
                   index_dir, xs_last>>

\* start_indexing on the tab "new index" (or without existing indexes): the
\* extractor of the dialog's combo box; the path is formed only when none is set
DLG_StartNew ==
    /\ dlg_pc = "open"
    /\ selected_extractor' = extractor_combo
    /\ output_path' = IF output_path = NoName
                       THEN Slug(AVAILABLE_EXTRACTORS[extractor_combo])
                       ELSE output_path
    /\ dlg_pc' = "indexing"
    /\ UNCHANGED <<inputVars, cf_call, scanVars, indexVars, searchVars, storeVars, model_combo,
                   extractor_combo, existing_indexes, index_dir, xs_last>>

\* start_indexing on the tab "existing index": extractor and path of the
\* selected index file
DLG_StartExisting ==
    /\ dlg_pc = "open"
    /\ \E s \in existing_indexes :
        /\ selected_extractor' = MatchingExtractor(s)
        /\ output_path' = s
    /\ dlg_pc' = "indexing"
    /\ UNCHANGED <<inputVars, cf_call, scanVars, indexVars, searchVars, storeVars, model_combo,
                   extractor_combo, existing_indexes, index_dir, xs_last>>

\* exec_() returns: the dialog and its attributes are gone
DialogGone ==
    /\ dlg_pc' = "closed"
    /\ extractor_combo' = 1 /\ output_path' = NoName
    /\ existing_indexes' = {} /\ selected_extractor' = 1

\* the IndexWorker's run ends: a completed run has written the record with
\* extractor_name = extractor.name at output_path and the dialog is closed;
\* after a failed or cancelled run the dialog can start again
DLG_RunEnds ==
    /\ dlg_pc = "indexing"
    /\ \E completed \in BOOLEAN :
        IF completed
        THEN /\ index_dir' = [index_dir EXCEPT
                                ![output_path] = AVAILABLE_EXTRACTORS[selected_extractor]]
             /\ DialogGone
        ELSE /\ index_dir' = index_dir
             /\ dlg_pc' = "open"
             /\ UNCHANGED <<extractor_combo, output_path, existing_indexes,
                            selected_extractor>>
    /\ UNCHANGED <<inputVars, cf_call, scanVars, indexVars, searchVars, storeVars, model_combo,
                   xs_last>>

\* the dialog is closed without a run
DLG_Close ==
    /\ dlg_pc = "open"
    /\ DialogGone
    /\ UNCHANGED <<inputVars, cf_call, scanVars, indexVars, searchVars, storeVars, model_combo,
                   index_dir, xs_last>>

\* What search_in_index does with the entries of an index whose record names
\* the extractor index_by, for query features of the extractor query_by:
\* the extractor is looked up by the stored name alone; each entry is compared
\* with it unless both features are arrays of different shapes.
StartSearch(query_by, index_by, shapes) ==
    [located |-> TRUE, query_by |-> query_by, index_by |-> index_by,
     compared |-> shapes # "differ", rejected |-> FALSE]

\* ImageSearchApp.start_search with the index in use: the index file is
\* looked for under the slug of the control panel's extractor; when it is
\* there, the indexed search runs on it (otherwise the linear scan)
CP_StartSearch ==
    /\ dlg_pc = "closed"
    /\ LET E == AVAILABLE_EXTRACTORS[model_combo]
       IN IF index_dir[Slug(E)] # NoName
          THEN \E shapes \in {"same", "differ", "none"} :
                    xs_last' = StartSearch(E, index_dir[Slug(E)], shapes)
          ELSE xs_last' = [NoStartSearch EXCEPT !.query_by = E]
    /\ UNCHANGED <<inputVars, cf_call, scanVars, indexVars, searchVars, storeVars, dlg_pc,
                   model_combo, extractor_combo, output_path, existing_indexes,
                   selected_extractor, index_dir>>

NextDialog ==
    \/ CP_SelectModel \/ CP_IndexFolder \/ DLG_SelectExtractor \/ DLG_StartNew
    \/ DLG_StartExisting \/ DLG_RunEnds \/ DLG_Close \/ CP_StartSearch

SpecDialog == InitDialog /\ [][NextDialog]_vars

\* the runs that have a stop(): a linear scan or an indexing run
InitStoppable == InitScan \/ InitIndexer

NextStoppable == NextScan \/ NextIndexer

SpecStoppable == InitStoppable /\ [][NextStoppable]_vars

\* an IndexWorker for any extractor, made without an output_path (the
\* default of its constructor) or with the one formed for the first extractor
InitKeyed ==
    /\ IndexWorkerCreated
    /\ dlg_pc = "off" /\ model_combo = 1 /\ extractor_combo = 1
    /\ output_path \in {NoName, Slug(AVAILABLE_EXTRACTORS[1])}
    /\ selected_extractor \in Extractors
    /\ existing_indexes = {}
    /\ index_dir = [s \in Slugs |-> NoName] /\ xs_last = NoStartSearch

SpecKeyed == InitKeyed /\ [][NextIndexer]_vars

\* the first indexing run for a storage key: no index file is there yet
InitTwice == InitIndexer /\ old_index.kind = "missing"

\* start_indexing after a run has ended: a new IndexWorker for the same
\* folder, extractor and output_path; what the earlier run left at
\* output_path is what this run starts with
IW_RunAgain ==
    /\ iw_pc = "done" /\ gui_queue = <<>> /\ gui_pc = "idle"
    /\ old_index' = index_file
    /\ iw_pc' = "created" /\ iw_cancelled' = FALSE
    /\ iw_indexer' = FALSE /\ iw_mutex' = "free" /\ ix_mutex' = "free"
    /\ ix_running' = TRUE /\ ix_cancelled' = FALSE /\ ix_image_files' = <<>>
    /\ ix_i' = 0 /\ features_dict' = <<>> /\ iw_slot' = "none"
    /\ iw_signals' = <<>>
    /\ ix_wrote' = FALSE /\ iw_stops' = 0 /\ iw_returned' = 0 /\ iw_late' = 0
    /\ UNCHANGED <<folder, caseFold, similarity_threshold, max_results, cf_call, storeVars,
                   dialogVars, scanVars, searchVars, dispatch, gui_pc, gui_queue,
                   index_file>>

NextTwice == NextIndexer \/ IW_RunAgain

SpecTwice == InitTwice /\ [][NextTwice]_vars

\* the callers of search_in_index: an indexed search, a search in several
\* indexes, the searches of a process whose index file is being written
InitSearches == InitSearch \/ InitMulti \/ InitStore

NextSearches == NextSearch \/ NextMulti \/ NextStore

SpecSearches == InitSearches /\ [][NextSearches]_vars

\* the runs that emit progress signals: a linear scan, an indexing run or
\* an indexed search
InitProgress == InitScan \/ InitIndexer \/ InitSearch

NextProgress == NextScan \/ NextIndexer \/ NextSearch

SpecProgress == InitProgress /\ [][NextProgress]_vars

\* --------------------------------- the extractors' compare_features
\* The extractors, by their classes.
ExtractorClasses == {"SIFT", "ColorHistogram", "DeepFace", "CNN"}

\* What is handed to compare_features: None ("none"), the pair (None, None)
\* that the SIFT extractor returns for an unreadable image ("pair"), an empty
\* array ("empty", what the DeepFace extractor returns without a face), or
\* features of the extractor itself ("ok").
FeatureValues == {"none", "pair", "empty", "ok"}

Returned(sim) == [kind |-> "value", sim |-> sim]

Raised == [kind |-> "raise", sim |-> 0]

\* 0.1, the value the CNN extractor returns for vectors of different shapes
LowSimilarity == 1

\* `None in features` of the SIFT extractor: None is not iterable (TypeError);
\* the pair holds None; an empty array holds nothing; for the pair
\* (keypoints, descriptors) the test compares the descriptor array with None,
\* which numpy answers element by element (the truth value of that array
\* raises ValueError) or, in its old versions, with a plain False
NoneIn(features, elementwise) ==
    CASE features = "none" -> "raise"
      [] features = "pair" -> "yes"
      [] features = "empty" -> "no"
      [] OTHER -> IF elementwise THEN "raise" ELSE "no"

\* SIFTFeatureExtractor.compare_features: the two membership tests, the
\* unpacking of both arguments (an empty array cannot be unpacked), the match
SIFT_compare_features(features1, features2, elementwise, sim) ==
    IF NoneIn(features1, elementwise) = "raise" THEN Raised
    ELSE IF NoneIn(features1, elementwise) = "yes" THEN Returned(0)
    ELSE IF NoneIn(features2, elementwise) = "raise" THEN Raised
    ELSE IF NoneIn(features2, elementwise) = "yes" THEN Returned(0)
    ELSE IF features1 = "empty" \/ features2 = "empty" THEN Raised
    ELSE Returned(sim)

\* ColorHistogramExtractor.compare_features: the test for None, then
\* cv2.compareHist inside the try (whose exceptions give 0.0)
Histogram_compare_features(features1, features2, sim) ==
    IF features1 = "none" \/ features2 = "none" THEN Returned(0)
    ELSE IF features1 = "ok" /\ features2 = "ok" THEN Returned(sim)
    ELSE Returned(0)

\* DeepFaceExtractor.compare_features: the test for an uninitialised library,
\* None and len(...) == 0, then the loops inside the try
DeepFace_compare_features(features1, features2, initialized, sim) ==
    IF ~initialized \/ features1 \in {"none", "empty"} \/ features2 \in {"none", "empty"}
    THEN Returned(0)
    ELSE IF features1 = "ok" /\ features2 = "ok" THEN Returned(sim)
    ELSE Returned(0)

\* CNNFeatureExtractor.compare_features: the test for None; inside the try,
\* ndim (which the pair does not have), the comparison of the shapes (0.1
\* when they differ), the zero norm of an empty vector
CNN_compare_features(features1, features2, sim) ==
    IF features1 = "none" \/ features2 = "none" THEN Returned(0)
    ELSE IF features1 = "pair" \/ features2 = "pair" THEN Returned(0)
    ELSE IF features1 # features2 THEN Returned(LowSimilarity)
    ELSE IF features1 = "empty" THEN Returned(0)
    ELSE Returned(sim)

\* extractor.compare_features(features1, features2) for the call c
compare_features(c) ==
    CASE c.extractor = "SIFT" ->
            SIFT_compare_features(c.features1, c.features2, c.elementwise, c.sim)
      [] c.extractor = "ColorHistogram" ->
            Histogram_compare_features(c.features1, c.features2, c.sim)
      [] c.extractor = "DeepFace" ->
            DeepFace_compare_features(c.features1, c.features2, c.initialized, c.sim)
      [] OTHER -> CNN_compare_features(c.features1, c.features2, c.sim)

\* a call of compare_features of any extractor with any two arguments; sim
\* is the similarity of the two when both are features of the extractor
InitCompare ==
    /\ folder = <<>> /\ caseFold = FALSE
    /\ similarity_threshold = 0
    /\ max_results = 0
    /\ old_index = [kind |-> "missing", features |-> <<>>]
    /\ ScanOff
    /\ IndexOff
    /\ SearchOff
    /\ StoreOff
    /\ DialogOff
    /\ cf_call \in [pc : {"called"}, extractor : ExtractorClasses,
                features1 : FeatureValues, features2 : FeatureValues,
                elementwise : BOOLEAN, initialized : BOOLEAN, sim : Scores,
                result : {NoResult}]

\* the call runs
CompareFeatures ==
    /\ cf_call.pc = "called"
    /\ cf_call' = [cf_call EXCEPT !.pc = "returned", !.result = compare_features(cf_call)]
    /\ UNCHANGED <<inputVars, scanVars, indexVars, searchVars, storeVars, dialogVars>>

NextCompare == CompareFeatures

SpecCompare == InitCompare /\ [][NextCompare]_vars

\* the runs the application starts: a linear scan, an indexing run, an
\* indexed search, a search over several indexes, searches of an index file
\* that an indexing run writes
Init ==
    \/ InitScan \/ InitIndexer \/ InitSearch \/ InitMulti \/ InitStore \/ InitDialog
    \/ InitCompare

Next ==
    \/ NextScan \/ NextIndexer \/ NextSearch \/ NextMulti \/ NextStore \/ NextDialog
    \/ NextCompare

Spec == Init /\ [][Next]_vars

\* ====================================================================
\* Properties
\* ====================================================================
\* The lists carried by the result_ready signals of a signal sequence.
ResultLists(signals) == {signals[k].list : k \in Emitted(signals, "result_ready")}

Paths(list) == {list[k].path : k \in 1..Len(list)}

IsPrefix(s, t) == Len(s) <= Len(t) /\ SubSeq(t, 1, Len(s)) = s

Max(S) == CHOOSE x \in S : \A y \in S : x >= y

\* C1: a linear scan that observes stop() at its per-file check emits
\* search_cancelled and never result_ready.
C1_CancelledScanDeliversNoResult ==
    Emitted(sw_signals, "search_cancelled") # {}
        => Emitted(sw_signals, "result_ready") = {}

\* C2: an indexing run whose terminal event is index_cancelled did not write
\* the index file.
C2_CancelledRunWritesNoIndex ==
    Emitted(iw_signals, "index_cancelled") # {} => ~ix_wrote

\* C3: after a stop() call, an indexing run or a linear scan begins the
\* feature extraction of at most one further file.
C3_OneFurtherFileAfterStop == sw_late <= 1 /\ iw_late <= 1

\* The linear-scan half of C3 alone.
ScanLatencyBound == sw_late <= 1

\* An index that search_in_index can evaluate: a record of an available extractor.
Usable(c) == c.kind = "record" /\ c.known

\* The entry is evaluated by the loop of search_in_index and passes the threshold.
Qualifies(e) ==
    e.path \in exists /\ e.cmp.kind = "ok" /\ e.cmp.sim >= similarity_threshold

\* The qualifying entries of index k, in the order of the record.
QualifyingEntries(k) ==
    IF Usable(disk[k]) THEN SelectSeq(disk[k].features, Qualifies) ELSE <<>>

\* The qualifying similarities of path p over all the given indexes.
QualifyingScores(p) ==
    UNION {{QualifyingEntries(k)[j].cmp.sim :
                j \in {i \in 1..Len(QualifyingEntries(k)) :
                        QualifyingEntries(k)[i].path = p}} : k \in IndexKeys}

\* C4: search_in_multiple_indexes returns each path at most once, with the
\* maximum of the path's qualifying similarities over all the indexes.
C4_MergeKeepsBestScore ==
    mi_pc = "done" =>
        /\ \A a, b \in 1..Len(combined_results) :
              a # b => combined_results[a].path # combined_results[b].path
        /\ \A a \in 1..Len(combined_results) :
              /\ QualifyingScores(combined_results[a].path) # {}
              /\ combined_results[a].sim = Max(QualifyingScores(combined_results[a].path))

\* A returned path is stored in two indexes with different qualifying
\* similarities, and the limit truncates.
C4_Witness ==
    /\ mi_pc = "done"
    /\ max_results > 0
    /\ \E k \in IndexKeys : Len(QualifyingEntries(k)) > max_results
    /\ \E a \in 1..Len(combined_results) :
          Cardinality(QualifyingScores(combined_results[a].path)) >= 2

\* The per-index lists the threads would have stored with an unbounded
\* per-index limit, in the order in which the threads ended.
RECURSIVE CompletePerIndex(_)
CompletePerIndex(finished) ==
    IF finished = <<>> THEN <<>>
    ELSE ThreadResults(CompletePerIndex(SubSeq(finished, 1, Len(finished) - 1)),
                       indexes, finished[Len(finished)], 0)

\* C5: the limit is applied only after merging: the result is the first
\* max_results entries of the merge of the complete per-index results.
C5_LimitOnlyAfterMerge ==
    mi_pc = "done" =>
        combined_results = CombinedResults(CompletePerIndex(mi_finished), max_results)

\* The per-index lists of the usable indexes alone, in the order in which
\* their threads ended.
RECURSIVE RemainingPerIndex(_)
RemainingPerIndex(finished) ==
    IF finished = <<>> THEN <<>>
    ELSE LET k == finished[Len(finished)]
             rest == RemainingPerIndex(SubSeq(finished, 1, Len(finished) - 1))
         IN IF Usable(disk[k])
            THEN Append(rest, [key |-> k,
                               results |-> Truncate(SortResults(
                                   [j \in 1..Len(QualifyingEntries(k)) |->
                                       Hit(QualifyingEntries(k)[j].path,
                                           QualifyingEntries(k)[j].cmp.sim)]),
                                   max_results)])
            ELSE rest

\* C6: search_in_multiple_indexes returns after every thread has ended, and
\* an index that cannot be loaded or whose thread fails contributes nothing:
\* the result is the merge of the results of the other indexes.
C6_FailedIndexContributesNothing ==
    mi_pc = "done" =>
        /\ \A k \in IndexKeys : \E j \in 1..Len(mi_finished) : mi_finished[j] = k
        /\ combined_results =
              Truncate(SortResults(UniqueResults(AllResults(
                  RemainingPerIndex(mi_finished)))), max_results)

\* One index failed (its thread raised or its file did not load) after the
\* other had stored a non-empty list, and the search returned that list.
C6_Witness ==
    /\ mi_pc = "done"
    /\ combined_results # <<>>
    /\ ~Usable(disk[mi_finished[Len(mi_finished)]])
    /\ disk[mi_finished[Len(mi_finished)]].kind \in {"invalid", "corrupt", "missing"}

\* The indexed search ran search_in_index on a record of an available extractor.
SearchedRecord ==
    /\ isw_pc = "done"
    /\ \E k \in Emitted(isw_signals, "progress_update") : isw_signals[k].val = 30
    /\ Usable(disk[index_path])

\* The entries of the record whose file exists and for which compare_features
\* returns a similarity (whatever the shapes) that reaches the threshold.
Comparable(e) ==
    e.path \in exists /\ e.cmp.kind \in {"ok", "mismatch"}
        /\ e.cmp.sim >= similarity_threshold

HitOf(e) == Hit(e.path, e.cmp.sim)

HitsOf(entries) == [j \in 1..Len(entries) |-> HitOf(entries[j])]

ComparableEntries == HitsOf(SelectSeq(disk[index_path].features, Comparable))

Elems(list) == {list[k] : k \in 1..Len(list)}

\* C7: with limit 0, search_in_index returns exactly the entries of the record
\* whose file exists, whose similarity compare_features computes without
\* error, and whose similarity is >= the threshold; none of them is omitted.
C7_ExactlyTheComparableEntries ==
    (SearchedRecord /\ max_results = 0) =>
        \A L \in ResultLists(isw_signals) :
            /\ Elems(L) = Elems(ComparableEntries)
            /\ Len(L) = Len(ComparableEntries)

WithScore(list, s) == SelectSeq(list, LAMBDA h : h.sim = s)

\* result is sorted by non-increasing similarity and its entries of equal
\* similarity are in the order in which seen lists them.
SortedFirstSeen(result, seen) ==
    /\ \A a, b \in 1..Len(result) : a < b => result[a].sim >= result[b].sim
    /\ \A s \in Scores : IsPrefix(WithScore(result, s), WithScore(seen, s))

ScanQualifies(p) ==
    Compared(sw_query, p).kind = "ok" /\ Compared(sw_query, p).sim >= similarity_threshold

\* The qualifying files among the first n enumerated ones, in enumeration order.
ScanKept(n) ==
    LET q == SelectSeq(SubSeq(ImageFiles, 1, n), ScanQualifies)
    IN [j \in 1..Len(q) |-> Hit(q[j], Compared(sw_query, q[j]).sim)]

\* C8: the result lists of the linear scan, of search_in_index and of
\* search_in_multiple_indexes are sorted by non-increasing similarity, and
\* entries of equal similarity keep their first-seen order (file enumeration
\* order, record iteration order, merge insertion order).
C8_SortedTiesFirstSeen ==
    /\ \A L \in ResultLists(sw_signals) : SortedFirstSeen(L, ScanKept(sw_i))
    /\ \A L \in ResultLists(isw_signals) :
          SortedFirstSeen(L, HitsOf(QualifyingEntries(index_path)))
    /\ mi_pc = "done" => SortedFirstSeen(combined_results, unique_results)

\* A result whose first two entries tie and are listed against the order of
\* their paths (the keys of the record are not in path order).
C8_Witness ==
    \E L \in ResultLists(isw_signals) :
        /\ Len(L) >= 2
        /\ L[1].sim = L[2].sim
        /\ L[1].path > L[2].path

\* What search_in_index does return with limit 0: the comparable entries whose
\* flattened shape equals the flattened shape of the query.
SearchReturnsSameShapeEntries ==
    (SearchedRecord /\ max_results = 0) =>
        \A L \in ResultLists(isw_signals) :
            Elems(L) = Elems(HitsOf(QualifyingEntries(index_path)))

Min(a, b) == IF a < b THEN a ELSE b

Count(list, s) == Len(WithScore(list, s))

\* L is what the limit leaves of the qualifying entries qual: all of them
\* with limit 0, otherwise min(limit, number of them) entries, none of which
\* has a lower similarity than an omitted one.
LimitSemantics(L, qual) ==
    /\ Len(L) = IF max_results = 0 THEN Len(qual) ELSE Min(max_results, Len(qual))
    /\ \A s \in Scores :
          /\ Count(L, s) <= Count(qual, s)
          /\ Count(L, s) < Count(qual, s) => \A k \in 1..Len(L) : L[k].sim >= s

\* C9: the result of search_in_index and of the linear scan holds every
\* qualifying entry when the limit is 0, and min(N, number of qualifying
\* entries) entries when the limit is N > 0, no omitted qualifying entry
\* having a strictly higher similarity than a returned one.
C9_LimitSemantics ==
    /\ \A L \in ResultLists(sw_signals) : LimitSemantics(L, ScanKept(Len(ImageFiles)))
    /\ SearchedRecord =>
          \A L \in ResultLists(isw_signals) : LimitSemantics(L, ComparableEntries)

\* The limit semantics of the scans that were not cancelled and of the
\* entries search_in_index compares.
LimitSemanticsOfCompleteRuns ==
    /\ Emitted(sw_signals, "search_cancelled") = {} =>
          \A L \in ResultLists(sw_signals) : LimitSemantics(L, ScanKept(Len(ImageFiles)))
    /\ SearchedRecord =>
          \A L \in ResultLists(isw_signals) :
              LimitSemantics(L, HitsOf(QualifyingEntries(index_path)))

FileExists(e) == e.path \in exists

\* C10: an entry whose file no longer exists never appears in the result of
\* search_in_index, raises no error, and leaves the evaluation of the other
\* entries as it is without that entry.
C10_MissingFilesExcluded ==
    SearchedRecord =>
        /\ Emitted(isw_signals, "error_occurred") = {}
        /\ ResultLists(isw_signals) # {}
        /\ \A L \in ResultLists(isw_signals) :
              /\ Paths(L) \subseteq exists
              /\ L = SearchRecord([disk[index_path] EXCEPT
                                      !.features = SelectSeq(@, FileExists)],
                                  similarity_threshold, max_results).results

\* The record holds an entry of a deleted file that reaches the threshold,
\* and the search returned the other entries.
C10_Witness ==
    /\ SearchedRecord
    /\ \E j \in 1..Len(disk[index_path].features) :
          LET e == disk[index_path].features[j]
          IN e.path \notin exists /\ e.cmp.kind = "ok" /\ e.cmp.sim >= similarity_threshold
    /\ \E L \in ResultLists(isw_signals) : L # <<>>

\* The indexed search got its query features and called search_in_index.
IndexedSearchRan ==
    /\ isw_pc = "done"
    /\ \E k \in Emitted(isw_signals, "progress_update") : isw_signals[k].val = 30

\* The index file is missing, cannot be unpickled, or unpickles to something
\* that is no index record.
NoValidRecord(k) == disk[k].kind \in {"missing", "corrupt", "invalid"}

\* C14: when the index at the requested path is missing or is no valid
\* record, the indexed search run ends with error_occurred and emits no
\* result_ready.
C14_UnusableIndexEndsFailed ==
    (IndexedSearchRan /\ NoValidRecord(index_path)) =>
        /\ Emitted(isw_signals, "error_occurred") # {}
        /\ Emitted(isw_signals, "result_ready") = {}

\* C15: search_in_index on a path that does not exist, or whose bytes do not
\* unpickle to a valid index record, returns the empty list and does not raise.
C15_UnusableIndexGivesNoResults ==
    (IndexedSearchRan /\ NoValidRecord(index_path)) =>
        /\ ResultLists(isw_signals) = {<<>>}
        /\ Emitted(isw_signals, "error_occurred") = {}

\* What holds of the index files that load_index cannot read: the empty list.
UnreadableIndexGivesNoResults ==
    (IndexedSearchRan /\ disk[index_path].kind \in {"missing", "corrupt"}) =>
        /\ ResultLists(isw_signals) = {<<>>}
        /\ Emitted(isw_signals, "error_occurred") = {}

\* C16: when extract_features yields an Absent value for the query image
\* (None, an empty array, the pair (None, None)), the linear scan emits
\* error_occurred at once and extracts the features of no file of the folder.
C16_AbsentQueryFailsAtOnce ==
    sw_query \in {"none", "empty", "pair"} =>
        /\ sw_pc = "done"
        /\ sw_i = 0
        /\ sw_signals = <<Sig("error_occurred", 0, <<>>)>>

\* The Absent values the test of run does reject: None and the empty array.
NoneOrEmptyQueryFailsAtOnce ==
    sw_query \in {"none", "empty"} =>
        /\ sw_pc = "done"
        /\ sw_i = 0
        /\ sw_signals = <<Sig("error_occurred", 0, <<>>)>>

\* The index record this run has written.
WrittenRecord == ix_wrote /\ index_file.kind = "record"

Keys(file) == {file.features[j] : j \in 1..Len(file.features)}

\* C17: a file whose extraction yields an Absent value (None, an empty array,
\* the pair (None, None)) has no entry in the record the indexer writes: every
\* key maps to successfully extracted features.
C17_AbsentFilesNotIndexed ==
    WrittenRecord => \A p \in Keys(index_file) : folder[p].kind = "ok"

\* The files with None features, and those whose extraction raises, have no entry.
NoneFilesNotIndexed ==
    WrittenRecord => \A p \in Keys(index_file) : folder[p].kind \notin {"absent", "raise"}

\* The terminal events of an IndexWorker.
TerminalEvents ==
    {k \in 1..Len(iw_signals) :
        iw_signals[k].sig \in {"index_completed", "index_failed", "index_cancelled"}}

\* The run is past the enumeration of the folder.
Enumerated == iw_pc \in {"check", "extract", "save", "emit", "done"}

\* The empty folder, original statement: the run's terminal event is
\* index_failed, whatever else happens during the run.
C18_EmptyFolderAlwaysFailed ==
    (folder = <<>> /\ Enumerated) =>
        \A k \in TerminalEvents : iw_signals[k].sig = "index_failed"

\* C18: over a folder without image files the indexer emits index_failed
\* with the reason "no images found" straight after the enumeration, no
\* progress signal is emitted, and the index file is neither created nor
\* modified; the worker passes the failure on as index_failed unless stop()
\* was called before its handler ran, and then it emits index_cancelled.
C18_EmptyFolderFailsUntouched ==
    (folder = <<>> /\ Enumerated) =>
        /\ iw_pc \in {"emit", "done"}
        /\ iw_pc = "emit" => iw_slot = "no_images"
        /\ \A j \in 1..Len(gui_queue) : gui_queue[j] = "no_images"
        /\ Emitted(iw_signals, "progress_update") = {}
        /\ ~ix_wrote /\ index_file = old_index
        /\ \A k \in 1..Len(iw_signals) :
              \/ iw_signals[k] = Sig("index_failed", 0, <<"no_images">>)
              \/ iw_signals[k] = Sig("index_cancelled", 0, <<>>) /\ iw_stops > 0
        /\ (iw_pc = "done" /\ gui_queue = <<>>) => Cardinality(TerminalEvents) = 1

\* The run over an empty folder has failed and left an existing index as it was.
C18_Witness ==
    /\ folder = <<>>
    /\ old_index.kind = "record"
    /\ iw_signals = <<Sig("index_failed", 0, <<"no_images">>)>>

\* C19: on an existing index (update mode) the indexer extracts features only
\* for the files that are not keys of the existing record, and every entry of
\* the existing record is carried over into the saved record.
C19_UpdateKeepsExistingEntries ==
    old_index.kind = "record" =>
        /\ \A j \in 1..ix_i : ix_image_files[j] \notin Keys(old_index)
        /\ WrittenRecord => Keys(old_index) \subseteq Keys(index_file)

\* C20: an IndexWorker emits no terminal event while it runs and exactly one
\* of index_completed, index_failed and index_cancelled when it ends; after
\* the terminal event nothing of the run is left to execute.
C20_ExactlyOneTerminalEvent ==
    /\ Cardinality(TerminalEvents) <= 1
    /\ (iw_pc = "done" /\ gui_queue = <<>>) => Cardinality(TerminalEvents) = 1
    /\ TerminalEvents # {} => (iw_pc = "done" /\ gui_queue = <<>> /\ iw_slot = "none")

\* A run that was stopped after its last per-file check has saved the index
\* and ended with its single terminal event, index_cancelled.
C20_Witness ==
    /\ iw_pc = "done"
    /\ ix_wrote
    /\ Cardinality(TerminalEvents) = 1
    /\ Emitted(iw_signals, "index_cancelled") # {}

\* C11: once the indexer has written a record to the index path, every search
\* started afterwards evaluates that record, also on a processor that had the
\* path in its cache before the write.
C11_SearchAfterWriteSeesNewRecord ==
    (st_last.by # "none" /\ st_last.written) => st_last.used = new_record

\* The searches whose processor has an empty cache do evaluate the new record.
FreshSearchAfterWriteSeesNewRecord ==
    (st_last.by # "none" /\ st_last.written /\ st_last.cached.kind = "unloaded")
        => st_last.used = new_record

\* C12: a search that loads the index file while the indexer is writing it
\* evaluates the complete previous record or the complete new record.
C12_LoadDuringWriteSeesCompleteRecord ==
    (st_last.by # "none" /\ st_last.read /\ st_last.writing /\ st_prev.kind = "record")
        => st_last.used \in {st_prev, new_record}

\* C13: after the first successful load of the index path, no later search
\* of the process reads the index file again.
C13_LoadedIndexNotReadAgain == ~st_reread

\* A processor that has the path in its cache evaluates the cached record
\* and does not read the file.
ProcessorKeepsLoadedIndex ==
    (st_last.by # "none" /\ st_last.cached.kind # "unloaded")
        => (~st_last.read /\ st_last.used = st_last.cached)

\* The terminal events of a SearchWorker.
ScanTerminals ==
    {k \in 1..Len(sw_signals) :
        sw_signals[k].sig \in {"result_ready", "error_occurred", "search_cancelled"}}

\* The terminal events of an IndexedSearchWorker (it has no cancellation signal).
IndexedTerminals ==
    {k \in 1..Len(isw_signals) : isw_signals[k].sig \in {"result_ready", "error_occurred"}}

\* C21: every search run, linear scan or indexed search, stopped or not,
\* delivers exactly one terminal event: a result list, an error message or a
\* cancellation notice.
C21_SearchExactlyOneTerminalEvent ==
    /\ Cardinality(ScanTerminals) <= 1
    /\ sw_pc = "done" => Cardinality(ScanTerminals) = 1
    /\ Cardinality(IndexedTerminals) <= 1
    /\ isw_pc \in {"done", "terminated"} => Cardinality(IndexedTerminals) = 1

\* The search runs that no stop request reaches do deliver exactly one
\* terminal event.
UnstoppedSearchOneTerminalEvent ==
    /\ Emitted(sw_signals, "search_cancelled") = {} => Cardinality(ScanTerminals) <= 1
    /\ (sw_pc = "done" /\ Emitted(sw_signals, "search_cancelled") = {})
            => Cardinality(ScanTerminals) = 1
    /\ Cardinality(IndexedTerminals) <= 1
    /\ isw_pc = "done" => Cardinality(IndexedTerminals) = 1

\* The per-file check has observed the stop: the run has left the loop
\* before the last image file.
StopObserved ==
    /\ iw_pc \in {"emit", "done"}
    /\ ix_i < Len(ix_image_files)

\* C22: once the indexer's per-file check has observed the flag set by
\* IndexWorker.stop, no further file is extracted, no further progress signal
\* is emitted, and the only terminal event of the run is index_cancelled.
C22_ObservedStopEndsCancelled ==
    /\ [](StopObserved =>
            /\ \A k \in TerminalEvents : iw_signals[k].sig = "index_cancelled"
            /\ (iw_pc = "done" /\ gui_queue = <<>>)
                    => Emitted(iw_signals, "index_cancelled") # {}
            /\ ~ix_wrote)
    /\ [][StopObserved =>
            /\ ix_i' = ix_i
            /\ features_dict' = features_dict
            /\ Emitted(iw_signals', "progress_update") = Emitted(iw_signals, "progress_update")]_vars

\* A run that had processed a file when its check observed the stop has
\* ended with index_cancelled.
C22_Witness ==
    /\ StopObserved
    /\ ix_i > 0
    /\ iw_pc = "done"
    /\ Emitted(iw_signals, "index_cancelled") # {}

IsProgress(s) == s.sig = "progress_update"

\* The values of the progress signals of a signal sequence, in order.
ProgressValues(signals) ==
    LET prog == SelectSeq(signals, IsProgress)
    IN [k \in 1..Len(prog) |-> prog[k].val]

\* round(100 * done / total), halves rounded up.
Round(done, total) == (200 * done + total) \div (2 * total)

\* C23: after each processed file the indexer and the linear scan have
\* emitted exactly one progress signal per processed file, the k-th of them
\* with the value round(100 * k / total).
C23_ProgressAfterEachFileRounded ==
    /\ iw_pc \in {"check", "extract", "save"} =>
            ProgressValues(iw_signals) =
                [k \in 1..ix_i |-> Round(k, Len(ix_image_files))]
    /\ sw_pc \in {"check", "extract"} =>
            ProgressValues(sw_signals) =
                [k \in 1..sw_i |-> Round(k, Len(sw_image_files))]

\* The indexer half of C23 alone: int and round agree on the totals 1, 2 and 4
\* and differ from a total of 3 on (int(200 / 3) = 66, round(200 / 3) = 67).
IndexerProgressRounded ==
    iw_pc \in {"check", "extract", "save"} =>
        ProgressValues(iw_signals) = [k \in 1..ix_i |-> Round(k, Len(ix_image_files))]

\* What the indexer does emit: one progress signal after each processed
\* file, with the value int(100 * k / total).
IndexerProgressTruncated ==
    iw_pc \in {"check", "extract", "save"} =>
        ProgressValues(iw_signals) = [k \in 1..ix_i |-> Percent(k, Len(ix_image_files))]

\* What the linear scan does emit: one progress signal before each file it
\* processes, with the value int(100 * k / total) for k files processed before.
ScanProgressBeforeEachFile ==
    /\ sw_pc = "check" =>
            ProgressValues(sw_signals) = [k \in 1..sw_i |-> Percent(k - 1, Len(sw_image_files))]
    /\ sw_pc = "extract" =>
            ProgressValues(sw_signals) =
                [k \in 1..(sw_i + 1) |-> Percent(k - 1, Len(sw_image_files))]

\* C24: every index file image_index_<slug>.pkl of the folder holds a record
\* whose extractor_name has that slug, so that the file start_search locates
\* for the selected extractor was built by that extractor.
C24_IndexFileBuiltByItsExtractor ==
    /\ \A s \in Slugs : index_dir[s] # NoName => Slug(index_dir[s]) = s
    /\ xs_last.located => xs_last.index_by = xs_last.query_by

\* C25: an index whose stored extractor identity differs from the identity
\* of the extractor of the query features is rejected when it is loaded;
\* its entries are never compared with the query features.
C25_MismatchedIndexRejected ==
    (xs_last.located /\ xs_last.index_by # xs_last.query_by)
        => (xs_last.rejected /\ ~xs_last.compared)

NoDuplicatePaths(list) ==
    \A a, b \in 1..Len(list) : a # b => list[a].path # list[b].path

\* C26: the result list a linear scan or an indexed search delivers contains
\* each file path at most once, whether or not the file system matches the
\* lower-case and the upper-case extension patterns case-insensitively.
C26_ResultPathsUnique ==
    /\ \A L \in ResultLists(sw_signals) : NoDuplicatePaths(L)
    /\ \A L \in ResultLists(isw_signals) : NoDuplicatePaths(L)

\* The indexed search, whose index is keyed by path, and the linear scan
\* on a file system that matches the patterns case-sensitively, deliver each
\* path at most once.
ResultPathsUniqueUnlessCaseFolded ==
    /\ ~caseFold => \A L \in ResultLists(sw_signals) : NoDuplicatePaths(L)
    /\ \A L \in ResultLists(isw_signals) : NoDuplicatePaths(L)

\* What a run has delivered and produced.
ScanOutcome == <<sw_pc, sw_signals, sw_results, sw_image_files, sw_i>>

IndexOutcome ==
    <<iw_pc, iw_signals, gui_queue, iw_slot, index_file, ix_wrote, features_dict, ix_i>>

\* C27: stop requests are idempotent. A stop() call emits nothing and
\* changes nothing but the flags; a run that has emitted its terminal event
\* emits nothing more, whatever stop() calls follow; and a stop() call after
\* an earlier one has taken effect leaves the flags as they are.
C27_StopIdempotent ==
    /\ [][sw_stops' # sw_stops =>
            /\ ScanOutcome' = ScanOutcome
            /\ sw_stops > 0 => (sw_running' = sw_running /\ sw_cancelled' = sw_cancelled)]_vars
    /\ [][sw_pc = "done" => sw_signals' = sw_signals]_vars
    /\ [][(iw_stops' # iw_stops \/ iw_returned' # iw_returned) =>
            /\ IndexOutcome' = IndexOutcome
            /\ iw_cancelled => iw_cancelled' = iw_cancelled
            /\ ix_cancelled => (ix_running' = ix_running /\ ix_cancelled' = ix_cancelled)]_vars
    /\ [][TerminalEvents # {} => iw_signals' = iw_signals]_vars

\* A completed indexing run after which stop() was called as often as the
\* bound allows: the delivered outcome is still index_completed.
C27_Witness ==
    /\ iw_pc = "done"
    /\ iw_stops = MaxStops /\ iw_returned = MaxStops
    /\ ix_cancelled
    /\ Emitted(iw_signals, "index_completed") # {}

\* The steps of the worker thread of an indexing run.
WorkerStep ==
    IW_Start \/ IW_Create \/ IX_Enumerate \/ IX_Check \/ IX_Extract \/ IX_Save
        \/ IW_SlotDirect \/ IW_Post

\* Both threads wait for a mutex the other one holds: the GUI thread inside
\* IndexWorker.stop (it holds the worker's mutex and needs the indexer's), the
\* worker thread at a point from which it cannot go on.
RunBlocked ==
    /\ gui_pc = "stop_indexer" /\ ~ENABLED IX_Stop
    /\ iw_pc \notin {"off", "done"} /\ ~ENABLED WorkerStep

NoDeadlockQueuedOrSingleStop ==
    (dispatch = "queued" \/ iw_stops <= 1) => ~RunBlocked

\* results_per_index when the first n threads end in the order of index_paths.
RECURSIVE PerIndexInOrder(_)
PerIndexInOrder(n) ==
    IF n = 0 THEN <<>>
    ELSE ThreadResults(PerIndexInOrder(n - 1), [k \in IndexKeys |-> Unloaded],
                       index_paths[n], PerIndexLimit)

\* The list search_in_multiple_indexes returns when the threads end in the
\* order of index_paths.
ResultInPathOrder == CombinedResults(PerIndexInOrder(Len(index_paths)), max_results)

\* C29: for fixed index contents, query, threshold and limit,
\* search_in_multiple_indexes returns the same sequence whatever the order in
\* which the per-index threads end.
C29_MultiIndexOrderIndependent ==
    mi_pc = "done" => combined_results = ResultInPathOrder

\* What does not depend on the order in which the threads end: the
\* similarities of the returned sequence, and without a limit its elements.
MultiIndexSameScores ==
    mi_pc = "done" =>
        /\ [j \in 1..Len(combined_results) |-> combined_results[j].sim]
                = [j \in 1..Len(ResultInPathOrder) |-> ResultInPathOrder[j].sim]
        /\ max_results = 0 => Elems(combined_results) = Elems(ResultInPathOrder)

\* C30: within one run of SearchWorker, IndexedSearchWorker or IndexWorker the
\* terminal event is the last event: no progress signal (and no other
\* signal) is emitted after it.
C30_TerminalEventIsLast ==
    /\ \A k \in ScanTerminals : k = Len(sw_signals)
    /\ \A k \in IndexedTerminals : k = Len(isw_signals)
    /\ \A k \in TerminalEvents : k = Len(iw_signals)

\* The IndexWorker half of C30 alone, and the runs of the two search workers
\* that end with an error.
IndexWorkerTerminalEventIsLast ==
    /\ \A k \in TerminalEvents : k = Len(iw_signals)
    /\ \A k \in Emitted(sw_signals, "error_occurred") : k = Len(sw_signals)
    /\ \A k \in Emitted(isw_signals, "error_occurred") : k = Len(isw_signals)

\* the run has ended with index_failed carrying one of the given reasons
EndedFailed(reasons) ==
    \E k \in Emitted(iw_signals, "index_failed") :
        \E r \in reasons : iw_signals[k].list = <<r>>

\* C31: when an Indexer run ends Failed (no images found, or an error while
\* extracting or saving), the content stored at its storage key is the
\* content stored there before the run.
C31_FailedRunKeepsStoredIndex ==
    EndedFailed({"no_images", "error"}) => index_file = old_index

\* A run that fails before pickle.dump has begun (no images found, or open
\* raises) leaves the stored content as it was.
FailedBeforeDumpKeepsStoredIndex ==
    (EndedFailed({"no_images", "error"}) /\ ~ix_wrote) => index_file = old_index

\* the files among the first n of files whose processing raises
Raising(files, n) == {files[k] : k \in {j \in 1..n : folder[files[j]].kind = "raise"}}

\* the run is over and every slot call has been delivered
IndexRunOver == iw_pc = "done" /\ gui_queue = <<>>

\* C32: when extraction or comparison raises for a file, the Indexer and the
\* linear scan skip that file (it gets no entry and no result), emit that
\* file's progress signal and go on with the remaining files; no failure is
\* reported for it, and a run that is not stopped and whose save succeeds
\* ends Completed with the entries or results of the other files.
C32_RaisingFileIsSkipped ==
    /\ \A p \in Raising(ix_image_files, ix_i) :
            \A k \in 1..Len(features_dict) : features_dict[k] # p
    /\ Cardinality(Emitted(iw_signals, "progress_update")) = ix_i
    /\ (iw_slot = "error" \/ EndedFailed({"error"})) => iw_pc \in {"emit", "done"} /\ ix_i = Len(ix_image_files)
    /\ (IndexRunOver /\ iw_stops = 0 /\ WrittenRecord) =>
            /\ ix_i = Len(ix_image_files)
            /\ iw_signals[Len(iw_signals)].sig = "index_completed"
            /\ Keys(index_file) \cap Raising(ix_image_files, ix_i) = {}
            /\ \A k \in 1..ix_i : folder[ix_image_files[k]].kind = "ok"
                    => ix_image_files[k] \in Keys(index_file)
    /\ \A L \in ResultLists(sw_signals) : Paths(L) \cap Raising(sw_image_files, sw_i) = {}
    /\ Emitted(sw_signals, "error_occurred") # {} => sw_i = 0 /\ sw_image_files = <<>>
    /\ sw_pc \in {"check", "finish"} =>
            Cardinality(Emitted(sw_signals, "progress_update")) = sw_i
    /\ (sw_pc = "done" /\ sw_stops = 0 /\ sw_image_files # <<>>) =>
            /\ sw_i = Len(sw_image_files)
            /\ Cardinality(Emitted(sw_signals, "progress_update")) = sw_i + 1
            /\ ResultLists(sw_signals) = {ScanResult(ScanKept(sw_i))}

\* A completed run over a folder whose first file raises and whose second
\* file has features: the record holds the second file alone.
C32_Witness ==
    /\ Len(folder) = 2 /\ folder[1].kind = "raise" /\ folder[2].kind = "ok"
    /\ ~caseFold
    /\ IndexRunOver
    /\ Emitted(iw_signals, "index_completed") # {}
    /\ Emitted(iw_signals, "progress_update") = {1, 2}
    /\ WrittenRecord /\ Keys(index_file) = {2}

\* the indexer's index_completed is being delivered or was passed on
CompletionAnnounced ==
    \/ iw_slot = "completed"
    \/ \E j \in 1..Len(gui_queue) : gui_queue[j] = "completed"
    \/ Emitted(iw_signals, "index_completed") # {}

\* C33: in an Indexer run over a folder with at least one image and no
\* observed stop request, the complete record is written to the storage key
\* before index_completed is emitted, index_completed carries exactly that
\* storage key, and the run that saved its record ends with index_completed
\* (or, when stop() was called after the last check, with index_cancelled).
C33_RecordWrittenBeforeCompleted ==
    /\ CompletionAnnounced =>
            /\ folder # <<>>
            /\ ix_i = Len(ix_image_files)
            /\ WrittenRecord
            /\ index_file.features = features_dict
    /\ \A k \in Emitted(iw_signals, "index_completed") :
            /\ iw_signals[k].list = IndexerOutputPath
            /\ output_path # NoName => iw_signals[k].list = output_path
    /\ (IndexRunOver /\ WrittenRecord) =>
            /\ CompletionAnnounced \/ iw_stops > 0
            /\ iw_stops = 0 => Emitted(iw_signals, "index_completed") = {Len(iw_signals)}

\* An unstopped run for the second extractor without a given output_path has
\* written both files' entries and announced the default path of that extractor.
C33_Witness ==
    /\ output_path = NoName /\ selected_extractor = 2
    /\ iw_stops = 0
    /\ WrittenRecord /\ Len(index_file.features) = 2
    /\ iw_signals[Len(iw_signals)] = Sig("index_completed", 0, <<"c", "_", "g">>)

\* the progress values of signals are integers of 0..100 in non-decreasing order
ProgressInOrder(signals) ==
    /\ \A k \in Emitted(signals, "progress_update") : signals[k].val \in 0..100
    /\ \A a, b \in Emitted(signals, "progress_update") :
            a < b => signals[a].val <= signals[b].val

\* the value of the last progress signal of signals is 100
EndsWithHundred(signals) ==
    /\ Emitted(signals, "progress_update") # {}
    /\ signals[Max(Emitted(signals, "progress_update"))].val = 100

\* C34: within one run of the Indexer, the linear scan or the indexed search
\* every progress signal is an integer in [0,100], the emitted values are
\* non-decreasing, and a run that completes (index_completed, or a result
\* list) ends with the value 100.
C34_ProgressBoundedMonotoneEndsAt100 ==
    /\ ProgressInOrder(iw_signals)
    /\ ProgressInOrder(sw_signals)
    /\ ProgressInOrder(isw_signals)
    /\ Emitted(iw_signals, "index_completed") # {} => EndsWithHundred(iw_signals)
    /\ (sw_pc = "done" /\ Emitted(sw_signals, "result_ready") # {}) => EndsWithHundred(sw_signals)
    /\ (isw_pc = "done" /\ Emitted(isw_signals, "result_ready") # {}) => EndsWithHundred(isw_signals)

\* A linear scan that was not stopped has completed over several enumerated
\* files, with progress values strictly between 0 and 100 on the way.
C34_Witness ==
    /\ sw_pc = "done"
    /\ Emitted(sw_signals, "search_cancelled") = {}
    /\ Emitted(sw_signals, "result_ready") # {}
    /\ Cardinality(Emitted(sw_signals, "progress_update")) >= 3
    /\ \E k \in Emitted(sw_signals, "progress_update") : sw_signals[k].val \notin {0, 100}

Loaded(k) == indexes[k].kind # "unloaded"

\* C35: search_in_index and search_in_multiple_indexes never modify a loaded
\* index record or its file: a record is cached as it was read, a cached
\* record never changes afterwards (its entries for files that are gone
\* included), and the index file changes only when the indexer writes it.
C35_SearchLeavesIndexUnchanged ==
    /\ [](st_pc = "off" => \A k \in IndexKeys : Loaded(k) => indexes[k] = disk[k])
    /\ [][/\ \A k \in IndexKeys : Loaded(k) => indexes'[k] = indexes[k]
          /\ \A k \in IndexKeys : (~Loaded(k) /\ indexes'[k] # indexes[k]) => indexes'[k] = disk[k]
          /\ disk' # disk => fi_writing' # fi_writing]_vars

\* An indexed search has delivered its results from a record that holds an
\* entry for a file that is gone; the cached record still holds that entry.
C35_Witness ==
    /\ isw_pc = "done"
    /\ Emitted(isw_signals, "result_ready") # {}
    /\ Loaded(index_path)
    /\ indexes[index_path].kind = "record"
    /\ \E j \in 1..Len(indexes[index_path].features) :
            indexes[index_path].features[j].path \notin exists
    /\ indexes[index_path] = disk[index_path]

\* C36: when the Indexer has run to completion on a folder and runs to
\* completion again on the unchanged folder with the same extractor and the
\* same storage key, the record of the second run has the key set of the
\* record of the first run (and replaces it).
C36_SecondRunSameKeys ==
    (WrittenRecord /\ old_index.kind = "record") =>
        /\ Keys(index_file) = Keys(old_index)
        /\ index_file.features = features_dict
        /\ Len(index_file.features) = Cardinality(Keys(index_file))

\* A second run has completed and written again the two entries of the first run.
C36_Witness ==
    /\ old_index.kind = "record" /\ Keys(old_index) = {1, 2}
    /\ WrittenRecord
    /\ IndexRunOver
    /\ Emitted(iw_signals, "index_completed") # {}
    /\ Keys(index_file) = {1, 2}

\* the arguments that count as Absent or empty for an extractor
AbsentOf(extractor) ==
    IF extractor = "SIFT" THEN {"none", "pair", "empty"} ELSE {"none", "empty"}

AbsentArgument ==
    \/ cf_call.features1 \in AbsentOf(cf_call.extractor)
    \/ cf_call.features2 \in AbsentOf(cf_call.extractor)

\* C37: for every extractor compare_features returns exactly 0.0, without
\* raising, whenever either argument is Absent (None, or the extractor's
\* Absent value) or empty.
C37_AbsentComparesToZero ==
    (cf_call.pc = "returned" /\ AbsentArgument) => cf_call.result = Returned(0)

\* The colour histogram and DeepFace extractors return 0.0 for every Absent
\* or empty argument; the SIFT extractor does when its first argument is the
\* pair (None, None), the CNN extractor when an argument is None.
AbsentComparesToZeroWhereTested ==
    (cf_call.pc = "returned" /\ AbsentArgument) =>
        /\ cf_call.extractor \in {"ColorHistogram", "DeepFace"} => cf_call.result = Returned(0)
        /\ (cf_call.extractor = "SIFT" /\ cf_call.features1 = "pair") => cf_call.result = Returned(0)
        /\ (cf_call.extractor = "CNN" /\ "none" \in {cf_call.features1, cf_call.features2})
                => cf_call.result = Returned(0)

====
